---- MODULE Spec2Model ----
(***************************************************************************)
(* A model of scripts/docs/validate_docs.py: the documentation validator.  *)
(*                                                                         *)
(* Text is modelled as a sequence of tokens.  A token is a string: either  *)
(* one punctuation character (" ", "-", ":", "#", Backtick, ...) or a word, a   *)
(* maximal run of characters of the class [A-Za-z0-9_] ("title", "a",      *)
(* "True").  A line is a sequence of tokens, a text a sequence of lines    *)
(* (str.splitlines), a path a sequence of names and a name a sequence of   *)
(* tokens.  The regular expressions of the program are operators over      *)
(* token sequences.                                                        *)
(***************************************************************************)
EXTENDS Integers, Sequences, FiniteSets, TLC

VARIABLES
    raw,               \* parse_yamlish_frontmatter: the lines of the metadata block
    data,              \* parse_yamlish_frontmatter: the mapping returned
    errors,            \* parse_yamlish_frontmatter: the errors returned
    current_list_key,  \* parse_yamlish_frontmatter: the open list key at the end
    body,              \* the lines of a document body given to the extractors
    headings,          \* extract_headings_and_anchors: the headings returned
    anchors,           \* extract_headings_and_anchors: the anchors returned
    links,             \* extract_links: the link references returned
    files,             \* the file tree: path -> [text, json] of every regular file
    dirs,              \* the file tree: the directories that hold no file
    contracts,         \* load_contracts(): tools/docs/doc_contracts.json
    env,               \* os.environ, the clock and the tools on PATH
    args,              \* the parsed command line
    pc,                \* the position of main()
    records,           \* collect_docs: the DocRecords
    parse_problems,    \* collect_docs: the parse-time Problems
    problems,          \* the Problems gathered by the command
    mermaid_problems,  \* run_all: the Problems validate_mermaid returned
    openapi_problems,  \* run_all: the Problems validate_openapi returned
    audit,             \* write_audit_report: its other local variables
    exit_code          \* the value main() returns (-1: still running)

parseVars == <<raw, data, errors, current_list_key>>
extractVars == <<body, headings, anchors, links>>
worldVars == <<files, dirs, contracts, env, args>>
localVars == <<mermaid_problems, openapi_problems, audit>>
runVars == <<pc, records, parse_problems, problems, localVars, exit_code>>
mainVars == <<worldVars, runVars>>
vars == <<parseVars, extractVars, mainVars>>

(***************************************************************************)
(* Bounds of the model.                                                    *)
(***************************************************************************)
MaxBlock == 4          \* lines of a metadata block
MaxBody == 4           \* lines of a document body
MaxLinks == 2          \* link lines of the linking document

(***************************************************************************)
(* Tokens and character classes.                                           *)
(***************************************************************************)
\* the words used by the model: runs of [A-Za-z0-9_]
WordToks == {"a", "A", "b", "k", "j", "v", "w", "x", "py", "md", "txt",
             "true", "True", "false", "1", "2", "3", "4", "5", "6", "7",
             "8", "9", "0", "docs", "sop", "adr", "index", "missing",
             "guide", "mermaid", "Goal", "Steps", "Pre", "http", "readme",
             "v1", "sub", "zz", "ADR", "title", "category", "owner",
             "status", "superseded", "superseded_by", "last_reviewed",
             "audience", "invariants", "tutorial", "reference", "draft",
             "team", "openapi", "swagger", "graph", "assets", "days",
             "d", "mmd", "api", "json", "yaml", "mmdc", "cli", "failed",
             "Mermaid", "goal", "steps", "pre"}

\* the token of the backquote character
Backtick == "BACKTICK"

IsSpace(c) == c = " "
IsWord(c) == c \in WordToks
\* one token of the class [A-Za-z0-9_-]
IsKeyChar(c) == IsWord(c) \/ c = "-"

\* str.lower on one token
Lower(c) ==
    CASE c = "A" -> "a"
      [] c = "True" -> "true"
      [] c = "Goal" -> "goal"
      [] c = "Steps" -> "steps"
      [] c = "Pre" -> "pre"
      [] c = "Mermaid" -> "mermaid"
      [] c = "ADR" -> "adr"
      [] OTHER -> c

None == <<>>

\* write_audit_report before its first statement: no local is bound yet
NoAudit ==
    [structure_problems |-> <<>>, frontmatter_problems |-> <<>>, sop_problems |-> <<>>,
     link_problems |-> <<>>, mermaid_count |-> 0, openapi_count |-> 0, fresh |-> 0,
     total_reviewed |-> 0, stale_docs |-> <<>>, fresh_percent |-> 0, report |-> <<>>]

(***************************************************************************)
(* The values of the variables a specification does not use.               *)
(***************************************************************************)
IdleParse ==
    /\ raw = <<>>
    /\ data = <<>>
    /\ errors = <<>>
    /\ current_list_key = None

IdleExtract ==
    /\ body = <<>>
    /\ headings = <<>>
    /\ anchors = {}
    /\ links = <<>>

IdleMain ==
    /\ files = <<>>
    /\ dirs = {}
    /\ contracts = <<>>
    /\ env = <<>>
    /\ args = <<>>
    /\ pc = "idle"
    /\ records = <<>>
    /\ parse_problems = <<>>
    /\ problems = <<>>
    /\ mermaid_problems = <<>>
    /\ openapi_problems = <<>>
    /\ audit = NoAudit
    /\ exit_code = -1

(***************************************************************************)
(* str helpers.                                                            *)
(***************************************************************************)
RECURSIVE lstrip(_)
lstrip(s) == IF s # <<>> /\ IsSpace(Head(s)) THEN lstrip(Tail(s)) ELSE s

RECURSIVE rstrip(_)
rstrip(s) ==
    IF s # <<>> /\ IsSpace(s[Len(s)]) THEN rstrip(SubSeq(s, 1, Len(s) - 1)) ELSE s

strip(s) == lstrip(rstrip(s))

startswith(s, p) == Len(s) >= Len(p) /\ SubSeq(s, 1, Len(p)) = p
endswith(s, p) == Len(s) >= Len(p) /\ SubSeq(s, Len(s) - Len(p) + 1, Len(s)) = p

\* the number of leading tokens of s of the class [A-Za-z0-9_-]
RECURSIVE KeySpan(_)
KeySpan(s) == IF s # <<>> /\ IsKeyChar(Head(s)) THEN 1 + KeySpan(Tail(s)) ELSE 0

(***************************************************************************)
(* Parsed metadata values: a string, a boolean or a list of scalars.       *)
(***************************************************************************)
StrV(s) == [t |-> "str", s |-> s, b |-> FALSE, l |-> <<>>]
BoolV(b) == [t |-> "bool", s |-> <<>>, b |-> b, l |-> <<>>]
ListV(l) == [t |-> "list", s |-> <<>>, b |-> FALSE, l |-> l]

IsQuote(c) == c \in {"'", "\""}

strip_quotes(value0) ==
    LET value == strip(value0)
    IN IF Len(value) >= 2 /\ value[1] = value[Len(value)] /\ IsQuote(value[1])
       THEN SubSeq(value, 2, Len(value) - 1)
       ELSE value

parse_scalar(value0) ==
    LET value == strip(value0)
    IN IF value = <<>> THEN StrV(<<>>)
       ELSE IF Len(value) = 1 /\ Lower(value[1]) = "true" THEN BoolV(TRUE)
       ELSE IF Len(value) = 1 /\ Lower(value[1]) = "false" THEN BoolV(FALSE)
       ELSE StrV(strip_quotes(value))

\* the loop of parse_inline_list over the characters of inner:
\* st = [items, buf, quote]
RECURSIVE InlineScan(_, _)
InlineScan(inner, st) ==
    IF inner = <<>> THEN st
    ELSE LET ch == Head(inner)
             nxt == IF st.quote # ""
                    THEN [st EXCEPT !.quote = IF ch = st.quote THEN "" ELSE st.quote,
                                    !.buf = Append(st.buf, ch)]
                    ELSE IF IsQuote(ch)
                    THEN [st EXCEPT !.quote = ch, !.buf = Append(st.buf, ch)]
                    ELSE IF ch = ","
                    THEN [st EXCEPT !.items = Append(st.items, strip(st.buf)),
                                    !.buf = <<>>]
                    ELSE [st EXCEPT !.buf = Append(st.buf, ch)]
         IN InlineScan(Tail(inner), nxt)

RECURSIVE ScalarsOf(_)
ScalarsOf(items) ==
    IF items = <<>> THEN <<>>
    ELSE IF strip(Head(items)) = <<>> THEN ScalarsOf(Tail(items))
    ELSE <<parse_scalar(Head(items))>> \o ScalarsOf(Tail(items))

parse_inline_list(value) ==
    LET inner == strip(SubSeq(value, 2, Len(value) - 1))
        st == InlineScan(inner, [items |-> <<>>, buf |-> <<>>, quote |-> ""])
        items == IF st.buf # <<>> THEN Append(st.items, strip(st.buf)) ELSE st.items
    IN IF inner = <<>> THEN <<>> ELSE ScalarsOf(items)

(***************************************************************************)
(* parse_yamlish_frontmatter.                                              *)
(***************************************************************************)
\* not line.strip()
IsBlankLine(line) == strip(line) = <<>>
\* re.match(r"^\s*#.*$", line)
IsCommentLine(line) == LET r == lstrip(line) IN r # <<>> /\ r[1] = "#"
\* re.match(r"^\s*-\s+(.*)$", line)
ListMatch(line) ==
    LET r == lstrip(line) IN Len(r) >= 2 /\ r[1] = "-" /\ IsSpace(r[2])
ListGroup(line) == lstrip(Tail(lstrip(line)))
\* re.match(r"^([A-Za-z0-9_-]+):\s*(.*)$", line)
KeyLen(line) == KeySpan(line)
KeyMatch(line) ==
    KeyLen(line) >= 1 /\ Len(line) > KeyLen(line) /\ line[KeyLen(line) + 1] = ":"
KeyGroup(line) == SubSeq(line, 1, KeyLen(line))
ValueGroup(line) == lstrip(SubSeq(line, KeyLen(line) + 2, Len(line)))

DictSet(d, key, value) ==
    [k \in DOMAIN d \cup {key} |-> IF k = key THEN value ELSE d[k]]

ListItemError(idx) == [idx |-> idx, msg |-> "list item without list key"]
UnsupportedError(idx) == [idx |-> idx, msg |-> "unsupported syntax"]

\* the list-item branch, lines 122-128
ListItemStep(st, idx, line) ==
    IF st.current_list_key = None
       \/ st.current_list_key \notin DOMAIN st.data
       \/ st.data[st.current_list_key].t # "list"
    THEN [st EXCEPT !.errors = Append(st.errors, ListItemError(idx))]
    ELSE [st EXCEPT !.data = DictSet(st.data, st.current_list_key,
             ListV(Append(st.data[st.current_list_key].l,
                          parse_scalar(ListGroup(line)))))]

\* KeyStep with a bug: a `key: value` line leaves the open list key in place
KeyStep_KeepsListKey(st, idx, line) ==
    IF ~KeyMatch(line)
    THEN [st EXCEPT !.errors = Append(st.errors, UnsupportedError(idx)),
                    !.current_list_key = None]
    ELSE LET key == KeyGroup(line)
             value == ValueGroup(line)
         IN IF value = <<>>
            THEN [st EXCEPT !.data = DictSet(st.data, key, ListV(<<>>)),
                            !.current_list_key = key]
            ELSE IF value[1] = "[" /\ value[Len(value)] = "]"
            THEN [st EXCEPT !.data = DictSet(st.data, key, ListV(parse_inline_list(value)))]
            ELSE [st EXCEPT !.data = DictSet(st.data, key, parse_scalar(value))]

\* the key branch, lines 130-146
KeyStep(st, idx, line) ==
    IF ~KeyMatch(line)
    THEN [st EXCEPT !.errors = Append(st.errors, UnsupportedError(idx)),
                    !.current_list_key = None]
    ELSE LET key == KeyGroup(line)
             value == ValueGroup(line)
         IN IF value = <<>>
            THEN [st EXCEPT !.data = DictSet(st.data, key, ListV(<<>>)),
                            !.current_list_key = key]
            ELSE IF value[1] = "[" /\ value[Len(value)] = "]"
            THEN [st EXCEPT !.data = DictSet(st.data, key, ListV(parse_inline_list(value))),
                            !.current_list_key = None]
            ELSE [st EXCEPT !.data = DictSet(st.data, key, parse_scalar(value)),
                            !.current_list_key = None]

\* ParseLine with a bug: comment lines are not skipped
ParseLine_CommentsParsed(st, idx, raw_line) ==
    LET line == rstrip(raw_line)
    IN IF IsBlankLine(line) THEN st
       ELSE IF ListMatch(line) THEN ListItemStep(st, idx, line)
       ELSE KeyStep(st, idx, line)

\* one iteration of the loop, lines 115-146
ParseLine(st, idx, raw_line) ==
    LET line == rstrip(raw_line)
    IN IF IsBlankLine(line) THEN st
       ELSE IF IsCommentLine(line) THEN st
       ELSE IF ListMatch(line) THEN ListItemStep(st, idx, line)
       ELSE KeyStep(st, idx, line)

RECURSIVE ParseLines(_, _, _)
ParseLines(lines, idx, st) ==
    IF idx > Len(lines) THEN st
    ELSE ParseLines(lines, idx + 1, ParseLine(st, idx, lines[idx]))

parse_yamlish_frontmatter(lines) ==
    ParseLines(lines, 1, [data |-> <<>>, errors |-> <<>>, current_list_key |-> None])

(***************************************************************************)
(* The parser applied to a growing metadata block.                         *)
(***************************************************************************)
FmLines == {
    <<"k", ":">>,
    <<"j", ":", " ">>,
    <<"k", ":", " ", "v">>,
    <<"j", ":", " ", "[", "a", ",", " ", "'", "b", ",", "x", "'", "]">>,
    <<" ", " ", "-", " ", "True">>,
    <<"-", " ", "\"", "w", "\"">>,
    <<"#", " ", "k", ":">>,
    <<" ">>,
    <<" ", "k", ":", " ", "v">>,
    <<"-", "v">>
}

InitParse == IdleParse /\ IdleExtract /\ IdleMain

ParseBlock ==
    /\ Len(raw) < MaxBlock
    /\ \E line \in FmLines :
         LET st == parse_yamlish_frontmatter(Append(raw, line))
         IN /\ raw' = Append(raw, line)
            /\ data' = st.data
            /\ errors' = st.errors
            /\ current_list_key' = st.current_list_key
    /\ UNCHANGED <<extractVars, mainVars>>

NextParse == ParseBlock

SpecParse == InitParse /\ [][NextParse]_vars

(***************************************************************************)
(* The kinds of line of a metadata block, as the claims name them.         *)
(***************************************************************************)
IsSkippedLine(l) == IsBlankLine(rstrip(l)) \/ IsCommentLine(rstrip(l))
IsListItemLine(l) == ~IsSkippedLine(l) /\ ListMatch(rstrip(l))
IsKeyLine(l) == ~IsSkippedLine(l) /\ ~ListMatch(rstrip(l)) /\ KeyMatch(rstrip(l))
IsBareKeyLine(l) == IsKeyLine(l) /\ ValueGroup(rstrip(l)) = <<>>
IsUnsupportedLine(l) ==
    ~IsSkippedLine(l) /\ ~ListMatch(rstrip(l)) /\ ~KeyMatch(rstrip(l))

DeclaredKeys(lines) ==
    {KeyGroup(rstrip(lines[i])) : i \in {n \in 1..Len(lines) : IsKeyLine(lines[n])}}

\* the latest line before i that is a key line or an unsupported line (0: none)
Opener(lines, i) ==
    LET before == {j \in 1..(i - 1) : IsKeyLine(lines[j]) \/ IsUnsupportedLine(lines[j])}
    IN IF before = {} THEN 0 ELSE CHOOSE j \in before : \A m \in before : m <= j

\* list item i has an active list key: only blank, comment and list-item lines
\* lie between it and a bare `key:` line
HasActiveListKey(lines, i) ==
    Opener(lines, i) # 0 /\ IsBareKeyLine(lines[Opener(lines, i)])

ListItemErrorLines == {errors[n].idx : n \in {m \in 1..Len(errors) :
                                           errors[m].msg = "list item without list key"}}

RECURSIVE ScalarsOfItems(_, _, _)
\* the scalars of the list items of lines[from..] that belong to the bare key line j
ScalarsOfItems(lines, j, from) ==
    IF from > Len(lines) THEN <<>>
    ELSE IF IsListItemLine(lines[from]) /\ Opener(lines, from) = j
    THEN <<parse_scalar(ListGroup(rstrip(lines[from])))>> \o ScalarsOfItems(lines, j, from + 1)
    ELSE ScalarsOfItems(lines, j, from + 1)

\* C3 (as stated): a block with no line of unsupported syntax parses with zero
\* errors into a mapping that contains every declared key.
C3_NoUnsupportedNoErrors ==
    (\A i \in 1..Len(raw) : ~IsUnsupportedLine(raw[i]))
        => (errors = <<>> /\ DeclaredKeys(raw) \subseteq DOMAIN data)

\* C3 (amended): a block with no line of unsupported syntax, in which every
\* `- value` line has an active list key, parses with zero errors into a mapping
\* that contains every declared key; and every declared key is in the mapping
\* whatever the errors are.
C3_ValidBlockNoErrors ==
    /\ DeclaredKeys(raw) \subseteq DOMAIN data
    /\ (\A i \in 1..Len(raw) :
            /\ ~IsUnsupportedLine(raw[i])
            /\ (IsListItemLine(raw[i]) => HasActiveListKey(raw, i)))
        => errors = <<>>

C3_Witness ==
    /\ Len(raw) = MaxBlock
    /\ \A i \in 1..Len(raw) : ~IsUnsupportedLine(raw[i])
    /\ \E i \in 1..Len(raw) : IsListItemLine(raw[i]) /\ HasActiveListKey(raw, i)
    /\ \E i \in 1..Len(raw) : IsKeyLine(raw[i]) /\ ~IsBareKeyLine(raw[i])
    /\ \E i \in 1..Len(raw) : IsSkippedLine(raw[i])
    /\ errors = <<>>

\* C5 (as stated): a `- value` line is reported as a list item without a list
\* key only when no bare `key:` line precedes it.
C5_OrphanOnlyWithoutBareKey ==
    \A i \in ListItemErrorLines : ~\E j \in 1..(i - 1) : IsBareKeyLine(raw[j])

\* C5 (amended): a `- value` line appends its scalar to the list of the latest
\* preceding bare `key:` line when only blank, comment and list-item lines lie
\* between them, and is reported as a list item without a list key exactly
\* otherwise (no such line, or a `key: value` line, an inline-list line or an
\* unsupported line in between).
C5_ListItemsFollowActiveKey ==
    /\ ListItemErrorLines =
         {i \in 1..Len(raw) : IsListItemLine(raw[i]) /\ ~HasActiveListKey(raw, i)}
    /\ \A j \in 1..Len(raw) :
         (/\ IsBareKeyLine(raw[j])
          /\ \A m \in (j + 1)..Len(raw) :
                IsKeyLine(raw[m]) => KeyGroup(rstrip(raw[m])) # KeyGroup(rstrip(raw[j])))
         => /\ KeyGroup(rstrip(raw[j])) \in DOMAIN data
            /\ data[KeyGroup(rstrip(raw[j]))] = ListV(ScalarsOfItems(raw, j, j + 1))

C5_Witness ==
    /\ \E i \in 1..Len(raw) :
         /\ IsListItemLine(raw[i]) /\ HasActiveListKey(raw, i)
         /\ KeyGroup(rstrip(raw[Opener(raw, i)])) \in DOMAIN data
         /\ data[KeyGroup(rstrip(raw[Opener(raw, i)]))].l # <<>>
    /\ \E i \in ListItemErrorLines : \E j \in 1..(i - 1) : IsBareKeyLine(raw[j])

(***************************************************************************)
(* The structure extractor: extract_headings_and_anchors, slugify_heading, *)
(* extract_links.                                                          *)
(***************************************************************************)
\* FENCE_RE = ^```(?P<lang>[A-Za-z0-9_-]*)\s*$
FenceMatch(line) ==
    /\ Len(line) >= 3
    /\ line[1] = Backtick /\ line[2] = Backtick /\ line[3] = Backtick
    /\ LET rest == SubSeq(line, 4, Len(line))
       IN lstrip(SubSeq(rest, KeySpan(rest) + 1, Len(rest))) = <<>>
FenceLang(line) ==
    LET rest == SubSeq(line, 4, Len(line)) IN SubSeq(rest, 1, KeySpan(rest))

\* HEADER_RE = ^(#{1,6})\s+(.*)$
RECURSIVE HashSpan(_)
HashSpan(s) == IF s # <<>> /\ Head(s) = "#" THEN 1 + HashSpan(Tail(s)) ELSE 0
HeaderMatch(line) ==
    /\ HashSpan(line) \in 1..6
    /\ Len(line) > HashSpan(line)
    /\ IsSpace(line[HashSpan(line) + 1])
HeaderText(line) == strip(SubSeq(line, HashSpan(line) + 1, Len(line)))

\* value.lower(), then value.replace(Backtick, "") and re.sub(r"[^\w\s-]", "", value)
RECURSIVE LowerWordsOnly(_)
LowerWordsOnly(s) ==
    IF s = <<>> THEN <<>>
    ELSE IF IsWord(Head(s)) \/ IsSpace(Head(s)) \/ Head(s) = "-"
    THEN <<Lower(Head(s))>> \o LowerWordsOnly(Tail(s))
    ELSE LowerWordsOnly(Tail(s))

\* re.sub(r"\s+", "-", value)
RECURSIVE SpacesToHyphen(_)
SpacesToHyphen(s) ==
    IF s = <<>> THEN <<>>
    ELSE IF IsSpace(Head(s)) THEN <<"-">> \o SpacesToHyphen(lstrip(s))
    ELSE <<Head(s)>> \o SpacesToHyphen(Tail(s))

\* re.sub(r"-{2,}", "-", value)
RECURSIVE CollapseHyphens(_)
CollapseHyphens(s) ==
    IF s = <<>> THEN <<>>
    ELSE IF Head(s) = "-" /\ Len(s) >= 2 /\ s[2] = "-" THEN CollapseHyphens(Tail(s))
    ELSE <<Head(s)>> \o CollapseHyphens(Tail(s))

\* value.strip("-")
RECURSIVE StripHyphens(_)
StripHyphens(s) ==
    IF s # <<>> /\ Head(s) = "-" THEN StripHyphens(Tail(s))
    ELSE IF s # <<>> /\ s[Len(s)] = "-" THEN StripHyphens(SubSeq(s, 1, Len(s) - 1))
    ELSE s

slugify_heading(text) ==
    StripHyphens(CollapseHyphens(SpacesToHyphen(LowerWordsOnly(strip(text)))))

\* str(count)
IntStr(n) == <<"0", "1", "2", "3", "4", "5", "6", "7", "8", "9">>[n + 1]

\* counts[base] of a defaultdict(int)
CountOf(counts, base) == IF base \in DOMAIN counts THEN counts[base] ELSE 0

\* lines 185-197: a heading line outside a fence
HeadingStep(st, line) ==
    LET text == HeaderText(line)
        base == slugify_heading(text)
        count == CountOf(st.counts, base)
        anchor == IF count = 0 THEN base ELSE base \o <<"-", IntStr(count)>>
    IN IF base = <<>>
       THEN [st EXCEPT !.headings = Append(st.headings, text)]
       ELSE [st EXCEPT !.headings = Append(st.headings, text),
                       !.counts = DictSet(st.counts, base, count + 1),
                       !.anchors = st.anchors \cup {anchor}]

\* HeadingsLine with a bug: the lines inside a fence are not skipped
HeadingsLine_FenceIgnored(st, line) ==
    IF FenceMatch(line) THEN [st EXCEPT !.in_fence = ~st.in_fence]
    ELSE IF ~HeaderMatch(line) THEN st
    ELSE HeadingStep(st, line)

\* one iteration of the loop of extract_headings_and_anchors, lines 179-197
HeadingsLine(st, line) ==
    IF FenceMatch(line) THEN [st EXCEPT !.in_fence = ~st.in_fence]
    ELSE IF st.in_fence THEN st
    ELSE IF ~HeaderMatch(line) THEN st
    ELSE HeadingStep(st, line)

RECURSIVE HeadingsLines(_, _)
HeadingsLines(lines, st) ==
    IF lines = <<>> THEN st ELSE HeadingsLines(Tail(lines), HeadingsLine(st, Head(lines)))

extract_headings_and_anchors(lines) ==
    HeadingsLines(lines, [headings |-> <<>>, anchors |-> {}, counts |-> <<>>,
                          in_fence |-> FALSE])

\* the first index >= from of token c in s, 0 if there is none
RECURSIVE IndexFrom(_, _, _)
IndexFrom(s, c, from) ==
    IF from > Len(s) THEN 0
    ELSE IF s[from] = c THEN from
    ELSE IndexFrom(s, c, from + 1)

\* MARKDOWN_LINK_RE = (?<!!)\[[^\]]+\]\(([^)]+)\) matched at position p:
\* the index of the closing parenthesis, 0 if there is no match at p
LinkEndAt(line, p) ==
    IF line[p] # "[" \/ (p > 1 /\ line[p - 1] = "!") THEN 0
    ELSE LET q == IndexFrom(line, "]", p + 1)
         IN IF q = 0 \/ q = p + 1 \/ q + 1 > Len(line) \/ line[q + 1] # "(" THEN 0
            ELSE LET r == IndexFrom(line, ")", q + 2)
                 IN IF r = 0 \/ r = q + 2 THEN 0 ELSE r
LinkGroupAt(line, p) ==
    SubSeq(line, IndexFrom(line, "]", p + 1) + 2, LinkEndAt(line, p) - 1)

\* lines 221-226: the target of one match
LinkTarget(group) ==
    LET t0 == strip(group)
        sp == IndexFrom(t0, " ", 1)
        t1 == IF sp # 0 /\ ~startswith(t0, <<"<">>) THEN SubSeq(t0, 1, sp - 1) ELSE t0
    IN IF startswith(t1, <<"<">>) /\ endswith(t1, <<">">>)
       THEN SubSeq(t1, 2, Len(t1) - 1)
       ELSE t1

\* MARKDOWN_LINK_RE.finditer(line) from position p on
RECURSIVE LineLinks(_, _, _)
LineLinks(line, line_no, p) ==
    IF p > Len(line) THEN <<>>
    ELSE IF LinkEndAt(line, p) = 0 THEN LineLinks(line, line_no, p + 1)
    ELSE <<[target |-> LinkTarget(LinkGroupAt(line, p)), line |-> line_no]>>
         \o LineLinks(line, line_no, LinkEndAt(line, p) + 1)

\* one iteration of the loop of extract_links, lines 214-227
LinksLine(st, line_no, line) ==
    IF FenceMatch(line) THEN [st EXCEPT !.in_fence = ~st.in_fence]
    ELSE IF st.in_fence THEN st
    ELSE [st EXCEPT !.links = st.links \o LineLinks(line, line_no, 1)]

RECURSIVE LinksLines(_, _, _)
LinksLines(lines, line_no, st) ==
    IF line_no > Len(lines) THEN st
    ELSE LinksLines(lines, line_no + 1, LinksLine(st, line_no, lines[line_no]))

extract_links(lines) ==
    LinksLines(lines, 1, [links |-> <<>>, in_fence |-> FALSE]).links

(***************************************************************************)
(* The extractors applied to a growing document body.                      *)
(***************************************************************************)
BodyLines == {
    <<Backtick, Backtick, Backtick>>,
    <<Backtick, Backtick, Backtick, "py", " ">>,
    <<"#", " ", "a">>,
    <<"#", " ", Backtick, "A", Backtick, " ", "!">>,
    <<"#", " ", "a", "-", "1">>,
    <<"#", "#", " ", "[", "!", "]", "(", "#", "a", ")">>,
    <<"#", " ", "!">>,
    <<"!", "[", "x", "]", "(", "a", ".", "md", ")", " ", "[", "x", "]", "(", "<", "b", " ", "x", ">", ")">>,
    <<"x">>
}

InitExtract == IdleParse /\ IdleExtract /\ IdleMain

ExtractBody ==
    /\ Len(body) < MaxBody
    /\ \E line \in BodyLines :
         LET st == extract_headings_and_anchors(Append(body, line))
         IN /\ body' = Append(body, line)
            /\ headings' = st.headings
            /\ anchors' = st.anchors
            /\ links' = extract_links(Append(body, line))
    /\ UNCHANGED <<parseVars, mainVars>>

NextExtract == ExtractBody

SpecExtract == InitExtract /\ [][NextExtract]_vars

(***************************************************************************)
(* Fenced lines, defined from the document alone: line i lies inside a     *)
(* fenced block when an odd number of fence lines precede it and it is not *)
(* a fence line itself.                                                    *)
(***************************************************************************)
InsideFence(lines, i) ==
    /\ ~FenceMatch(lines[i])
    /\ Cardinality({j \in 1..(i - 1) : FenceMatch(lines[j])}) % 2 = 1

\* the document with the text of its fenced lines removed
Blanked(lines) == [i \in 1..Len(lines) |-> IF InsideFence(lines, i) THEN <<>> ELSE lines[i]]

\* C1: a line inside a fenced block contributes no heading, no anchor and no
\* link reference: the extractors return what they return for the document
\* with the text of its fenced lines removed, every link reference lies on a
\* line outside the fences, and there is one heading per heading line outside
\* the fences.
C1_FencedLinesContributeNothing ==
    /\ headings = extract_headings_and_anchors(Blanked(body)).headings
    /\ anchors = extract_headings_and_anchors(Blanked(body)).anchors
    /\ links = extract_links(Blanked(body))
    /\ \A n \in 1..Len(links) : ~InsideFence(body, links[n].line)
    /\ Len(headings) =
         Cardinality({i \in 1..Len(body) : ~InsideFence(body, i) /\ HeaderMatch(body[i])})

C1_Witness ==
    /\ \E i \in 1..Len(body) :
         /\ InsideFence(body, i)
         /\ HeaderMatch(body[i])
         /\ LineLinks(body[i], i, 1) # <<>>
    /\ \E i \in 1..Len(body) :
         /\ ~InsideFence(body, i)
         /\ \E j \in 1..(i - 1) : InsideFence(body, j)
         /\ HeaderMatch(body[i])
    /\ Len(headings) = 1

\* the headings of the document that have a non-empty slug
SluggedHeadings == {n \in 1..Len(headings) : slugify_heading(headings[n]) # <<>>}

\* C2: the anchors of one document are unique: the anchor set has as many
\* members as the document has headings with a non-empty slug.
C2_AnchorsUnique == Cardinality(anchors) = Cardinality(SluggedHeadings)

(***************************************************************************)
(* pathlib.  A path is the sequence of its names below the repository      *)
(* root; the file tree of the model is the repository.                     *)
(***************************************************************************)
Dot == <<".">>
DotDot == <<".", ".">>
DotMd == <<".", "md">>
repo_root == <<>>
docs_root == <<<<"docs">>>>

Name(path) == path[Len(path)]
Parent(path) == SubSeq(path, 1, Len(path) - 1)
IsPrefix(p, q) == Len(p) <= Len(q) /\ SubSeq(q, 1, Len(p)) = p

RECURSIVE LastIndex(_, _)
\* str.rfind: the last index of token c in s, 0 if there is none
LastIndex(s, c) ==
    IF s = <<>> THEN 0
    ELSE IF s[Len(s)] = c THEN Len(s)
    ELSE LastIndex(SubSeq(s, 1, Len(s) - 1), c)

\* PurePath.suffix of a name
Suffix(name) ==
    LET i == LastIndex(name, ".")
    IN IF 1 < i /\ i < Len(name) THEN SubSeq(name, i, Len(name)) ELSE <<>>

RECURSIVE LowerAll(_)
LowerAll(s) == IF s = <<>> THEN <<>> ELSE <<Lower(Head(s))>> \o LowerAll(Tail(s))

\* PurePath.with_suffix
with_suffix(path, suffix) ==
    LET name == Name(path)
        stem == SubSeq(name, 1, Len(name) - Len(Suffix(name)))
    IN Append(Parent(path), stem \o suffix)

\* the names of a path string: split on "/", empty and "." names dropped
RECURSIVE PartsFrom(_, _)
PartsFrom(s, cur) ==
    LET done == IF cur = <<>> \/ cur = Dot THEN <<>> ELSE <<cur>>
    IN IF s = <<>> THEN done
       ELSE IF Head(s) = "/" THEN done \o PartsFrom(Tail(s), <<>>)
       ELSE PartsFrom(Tail(s), Append(cur, Head(s)))
PathParts(s) == PartsFrom(s, <<>>)

\* Path.resolve(): ".." names removed with the name before them
RECURSIVE ResolveFrom(_, _)
ResolveFrom(done, rest) ==
    IF rest = <<>> THEN done
    ELSE IF Head(rest) = DotDot /\ done # <<>> /\ Name(done) # DotDot
    THEN ResolveFrom(Parent(done), Tail(rest))
    ELSE ResolveFrom(Append(done, Head(rest)), Tail(rest))
resolve(path) == ResolveFrom(<<>>, path)

\* Path.as_posix()
RECURSIVE as_posix(_)
as_posix(path) ==
    IF path = <<>> THEN <<>>
    ELSE IF Len(path) = 1 THEN path[1]
    ELSE path[1] \o <<"/">> \o as_posix(Tail(path))

is_file(path) == path \in DOMAIN files
is_dir(path) ==
    \/ path = repo_root
    \/ \E q \in DOMAIN files : IsPrefix(path, q) /\ q # path
    \/ \E q \in dirs : IsPrefix(path, q)
\* Path.exists() of a path without ".." names
ExistsPlain(path) == is_file(path) \/ is_dir(path)

\* Path.exists(): the walk of the operating system, name by name
RECURSIVE Walk(_, _)
Walk(cur, rest) ==
    IF rest = <<>> THEN ExistsPlain(cur)
    ELSE IF Head(rest) = DotDot
    THEN is_dir(cur) /\ cur # repo_root /\ Walk(Parent(cur), Tail(rest))
    ELSE is_dir(cur) /\ Walk(Append(cur, Head(rest)), Tail(rest))
exists(path) == Walk(<<>>, path)

(***************************************************************************)
(* Problem, split_frontmatter and collect_docs.                            *)
(***************************************************************************)
\* Problem(check, path, message, line); arg is what the message formats in
Problem(check, path, message, arg, line) ==
    [check |-> check, path |-> path, message |-> message, arg |-> arg, line |-> line]

FRONTMATTER_DELIM == <<"-", "-", "-">>

DelimiterError(msg) == [idx |-> 0, msg |-> msg]

\* the index of the first line from `from` on that is the delimiter, 0 if none
RECURSIVE EndIndex(_, _)
EndIndex(lines, from) ==
    IF from > Len(lines) THEN 0
    ELSE IF strip(lines[from]) = FRONTMATTER_DELIM THEN from
    ELSE EndIndex(lines, from + 1)

split_frontmatter(text) ==
    IF text = <<>> \/ ~startswith(text[1], FRONTMATTER_DELIM)
    THEN [fm |-> <<>>, body |-> text,
          errors |-> <<DelimiterError("missing frontmatter start delimiter")>>]
    ELSE IF strip(text[1]) # FRONTMATTER_DELIM
    THEN [fm |-> <<>>, body |-> text,
          errors |-> <<DelimiterError("invalid frontmatter start delimiter")>>]
    ELSE IF EndIndex(text, 2) = 0
    THEN [fm |-> <<>>, body |-> text,
          errors |-> <<DelimiterError("missing frontmatter end delimiter")>>]
    ELSE LET end_idx == EndIndex(text, 2)
             parsed == parse_yamlish_frontmatter(SubSeq(text, 2, end_idx - 1))
         IN [fm |-> parsed.data,
             body |-> SubSeq(text, end_idx + 1, Len(text)),
             errors |-> parsed.errors]

\* lines 241-242: one Problem per error of the document
RECURSIVE ErrorProblems(_, _)
ErrorProblems(rel, errs) ==
    IF errs = <<>> THEN <<>>
    ELSE <<Problem("frontmatter", rel, Head(errs).msg,
                   IF Head(errs).idx = 0 THEN <<>> ELSE <<IntStr(Head(errs).idx)>>, 0)>>
         \o ErrorProblems(rel, Tail(errs))

\* lines 238-256: the DocRecord of one file
DocRecord(path) ==
    LET text == files[path].text
        sf == split_frontmatter(text)
        ha == extract_headings_and_anchors(sf.body)
    IN [path |-> path,
        rel_path |-> as_posix(path),
        text |-> text,
        frontmatter |-> sf.fm,
        body |-> sf.body,
        headings |-> ha.headings,
        anchors |-> ha.anchors,
        links |-> extract_links(sf.body)]

\* every path of the model, in the order sorted() gives Path values
SortedPaths == <<
    <<<<"docs">>, <<"a", ".", "md">>>>,
    <<<<"docs">>, <<"adr">>, <<"ADR", "-", "0", "0", "0", "1", "-", "a", ".", "md">>>>,
    <<<<"docs">>, <<"adr">>, <<"a", ".", "md">>>>,
    <<<<"docs">>, <<"assets">>, <<"d", ".", "mmd">>>>,
    <<<<"docs">>, <<"b", ".", "txt">>>>,
    <<<<"docs">>, <<"guide", ".", "md">>>>,
    <<<<"docs">>, <<"reference">>, <<"openapi">>, <<"api", ".", "json">>>>,
    <<<<"docs">>, <<"reference">>, <<"openapi">>, <<"api", ".", "yaml">>>>,
    <<<<"docs">>, <<"sop">>, <<"b", ".", "md">>>>,
    <<<<"docs">>, <<"sub">>, <<"index", ".", "md">>>>,
    <<<<"docs">>, <<"v1", ".", "2", ".", "md">>>>,
    <<<<"readme", ".", "md">>>>
>>

\* lines 235-237: sorted(root.rglob("*.md")), regular files only
IsDocPath(path) ==
    /\ IsPrefix(docs_root, path) /\ path # docs_root
    /\ endswith(Name(path), DotMd)
    /\ is_file(path)
DocPaths == SelectSeq(SortedPaths, IsDocPath)

RECURSIVE CollectFrom(_)
CollectFrom(paths) ==
    IF paths = <<>> THEN [records |-> <<>>, problems |-> <<>>]
    ELSE LET rest == CollectFrom(Tail(paths))
             path == Head(paths)
         IN [records |-> <<DocRecord(path)>> \o rest.records,
             problems |-> ErrorProblems(as_posix(path),
                                        split_frontmatter(files[path].text).errors)
                          \o rest.problems]

collect_docs == CollectFrom(DocPaths)

(***************************************************************************)
(* resolve_markdown_link and validate_links.                               *)
(***************************************************************************)
NumberToks == {"0", "1", "2", "3", "4", "5", "6", "7", "8", "9"}

\* SCHEME_RE = ^[a-zA-Z][a-zA-Z0-9+.-]*:
IsSchemeChar(c) == IsWord(c) \/ c \in {"+", ".", "-"}
RECURSIVE SchemeSpan(_)
SchemeSpan(s) == IF s # <<>> /\ IsSchemeChar(Head(s)) THEN 1 + SchemeSpan(Tail(s)) ELSE 0
SchemeMatch(target) ==
    /\ target # <<>>
    /\ IsWord(target[1]) /\ target[1] \notin NumberToks
    /\ Len(target) > SchemeSpan(target)
    /\ target[SchemeSpan(target) + 1] = ":"

Skip(anchor, reason) == [resolved |-> <<>>, anchor |-> anchor, skip_reason |-> reason]
Resolved(path, anchor) == [resolved |-> path, anchor |-> anchor, skip_reason |-> ""]

\* lines 424-434: the candidates of a path
Candidate(resolved) ==
    IF exists(resolved) THEN resolved
    ELSE IF Suffix(Name(resolved)) = <<>> /\ exists(with_suffix(resolved, DotMd))
    THEN with_suffix(resolved, DotMd)
    ELSE IF Suffix(Name(resolved)) = <<>> /\ exists(Append(resolved, <<"index", ".", "md">>))
    THEN Append(resolved, <<"index", ".", "md">>)
    ELSE resolved

\* lines 417-422: the path a path_part names
ResolvedPath(record, path_part) ==
    IF startswith(path_part, <<"/">>)
    THEN repo_root \o PathParts(path_part)
    ELSE resolve(Parent(record.path) \o PathParts(path_part))

\* anchor or None: None is the empty anchor
resolve_markdown_link(record, target) ==
    LET hash == IndexFrom(target, "#", 1)
        path_part == IF hash = 0 THEN target ELSE SubSeq(target, 1, hash - 1)
        anchor == IF hash = 0 THEN <<>> ELSE SubSeq(target, hash + 1, Len(target))
    IN IF target = <<>> \/ target[1] = "?" THEN Skip(<<>>, "query-only link")
       ELSE IF SchemeMatch(target) THEN Skip(<<>>, "external link")
       ELSE IF startswith(target, <<"/", "/">>) THEN Skip(<<>>, "network-path link")
       ELSE IF path_part # <<>> /\ IndexFrom(path_part, "?", 1) # 0
       THEN Skip(anchor, "route/query link")
       ELSE IF startswith(path_part, <<"/">>) /\ ~startswith(path_part, <<"/", "docs", "/">>)
       THEN Skip(anchor, "site route")
       ELSE IF path_part = <<>> THEN Resolved(record.path, anchor)
       ELSE Resolved(Candidate(ResolvedPath(record, path_part)), anchor)

\* heading_cache.get(resolved_key): the anchors of the record at that path
HasRecord(recs, path) == \E n \in 1..Len(recs) : recs[n].path = path
RecordAt(recs, path) == recs[CHOOSE n \in 1..Len(recs) : recs[n].path = path]

\* LinkProblems with a bug: the anchor is looked up in the linking document
LinkProblems_OwnAnchors(recs, record, link) ==
    LET r == resolve_markdown_link(record, link.target)
        resolved_key == resolve(r.resolved)
    IN IF r.skip_reason # "" THEN <<>>
       ELSE IF ~exists(resolved_key)
       THEN <<Problem("links", record.rel_path, "broken link target", link.target, link.line)>>
       ELSE IF r.anchor # <<>> /\ LowerAll(Suffix(Name(resolved_key))) = DotMd
       THEN IF ~HasRecord(recs, resolved_key) THEN <<>>
            ELSE IF r.anchor \notin record.anchors
            THEN <<Problem("links", record.rel_path, "missing anchor", r.anchor, link.line)>>
            ELSE <<>>
       ELSE <<>>

\* lines 444-473: the Problems of one link
LinkProblems(recs, record, link) ==
    LET r == resolve_markdown_link(record, link.target)
        resolved_key == resolve(r.resolved)
    IN IF r.skip_reason # "" THEN <<>>
       ELSE IF ~exists(resolved_key)
       THEN <<Problem("links", record.rel_path, "broken link target", link.target, link.line)>>
       ELSE IF r.anchor # <<>> /\ LowerAll(Suffix(Name(resolved_key))) = DotMd
       THEN IF ~HasRecord(recs, resolved_key) THEN <<>>
            ELSE IF r.anchor \notin RecordAt(recs, resolved_key).anchors
            THEN <<Problem("links", record.rel_path, "missing anchor", r.anchor, link.line)>>
            ELSE <<>>
       ELSE <<>>

RECURSIVE RecordLinkProblems(_, _, _)
RecordLinkProblems(recs, record, lnks) ==
    IF lnks = <<>> THEN <<>>
    ELSE LinkProblems(recs, record, Head(lnks)) \o RecordLinkProblems(recs, record, Tail(lnks))

RECURSIVE LinksFrom(_, _)
LinksFrom(recs, n) ==
    IF n > Len(recs) THEN <<>>
    ELSE RecordLinkProblems(recs, recs[n], recs[n].links) \o LinksFrom(recs, n + 1)

validate_links(recs) == LinksFrom(recs, 1)

fail_if_problems(ps) == IF ps # <<>> THEN 1 ELSE 0

(***************************************************************************)
(* main(): the documents are collected, then the command runs.             *)
(***************************************************************************)
CollectDocs ==
    /\ pc = "collect"
    /\ records' = collect_docs.records
    /\ parse_problems' = collect_docs.problems
    /\ pc' = "dispatch"
    /\ UNCHANGED <<problems, localVars, exit_code, worldVars, parseVars, extractVars>>

\* lines 777-778
CmdLinks ==
    /\ pc = "dispatch"
    /\ args.command = "links"
    /\ problems' = validate_links(records)
    /\ exit_code' = fail_if_problems(validate_links(records))
    /\ pc' = "done"
    /\ UNCHANGED <<records, parse_problems, localVars, worldVars, parseVars, extractVars>>

InitRun ==
    /\ pc = "collect"
    /\ records = <<>>
    /\ parse_problems = <<>>
    /\ problems = <<>>
    /\ mermaid_problems = <<>>
    /\ openapi_problems = <<>>
    /\ audit = NoAudit
    /\ exit_code = -1

NoContracts == [sop_required_headings |-> <<>>]
NoEnv == [DOCS_TODAY |-> <<>>]
\* a file: its lines, and what json.load gives for it
NoJson == [valid |-> FALSE, dict |-> FALSE, keys |-> {}]
File(text) == [text |-> text, json |-> NoJson]
JsonFile(text, json) == [text |-> text, json |-> json]
Args(command) == [command |-> command]

(***************************************************************************)
(* The `links` command on a tree whose document docs/a.md links to others. *)
(***************************************************************************)
Targets == {
    <<".", "/", "missing", ".", "md">>,
    <<"guide">>,
    <<"guide", ".", "md", "#", "a", "-", "1">>,
    <<"guide", "#", "b">>,
    <<"#", "a">>,
    <<"#", "b">>,
    <<"#">>,
    <<"v1", ".", "2">>,
    <<"sub">>,
    <<".", ".", "/", "readme", ".", "md", "#", "b">>,
    <<"/", "docs", "/", "sub", "/", ".", ".", "/", "guide">>,
    <<"b", ".", "txt", "#", "b">>,
    <<"?", "a", "#", "b">>,
    <<"http", ":", "/", "/", "x", "#", "b">>,
    <<"/", "/", "x", "#", "b">>,
    <<"/", "x", "#", "b">>,
    <<"guide", "?", "a", "#", "b">>
}

FmOk == <<FRONTMATTER_DELIM, <<"k", ":", " ", "v">>, FRONTMATTER_DELIM>>
LinkLine(target) == <<"[", "x", "]", "(">> \o target \o <<")">>

\* the bodies of docs/a.md: a heading and up to MaxLinks link lines
RECURSIVE LinkBodies(_)
LinkBodies(n) ==
    IF n = 0 THEN {<<<<"#", " ", "a">>>>}
    ELSE LinkBodies(n - 1)
         \cup {Append(b, LinkLine(t)) : b \in {x \in LinkBodies(n - 1) : Len(x) = n},
                                        t \in Targets}

PathA == <<<<"docs">>, <<"a", ".", "md">>>>
PathTxt == <<<<"docs">>, <<"b", ".", "txt">>>>
PathGuide == <<<<"docs">>, <<"guide", ".", "md">>>>
PathIndex == <<<<"docs">>, <<"sub">>, <<"index", ".", "md">>>>
PathV12 == <<<<"docs">>, <<"v1", ".", "2", ".", "md">>>>
PathReadme == <<<<"readme", ".", "md">>>>

GuideText == FmOk \o <<<<"#", " ", "a">>, <<"#", " ", "a">>, LinkLine(<<"a", "#", "a">>)>>

OptionalFiles ==
    (PathGuide :> File(GuideText)) @@ (PathIndex :> File(FmOk))

Restrict(f, S) == [x \in S |-> f[x]]

InitLinks ==
    /\ IdleParse /\ IdleExtract /\ InitRun
    /\ \E b \in LinkBodies(MaxLinks), S \in SUBSET DOMAIN OptionalFiles :
         files = (PathA :> File(FmOk \o b)) @@ (PathTxt :> File(<<>>))
                 @@ (PathV12 :> File(FmOk)) @@ (PathReadme :> File(<<>>))
                 @@ Restrict(OptionalFiles, S)
    /\ dirs = {}
    /\ contracts = NoContracts
    /\ env = NoEnv
    /\ args = Args("links")

NextLinks == CollectDocs \/ CmdLinks

SpecLinks == InitLinks /\ [][NextLinks]_vars

(***************************************************************************)
(* The links of the corpus, as the claims about the link check name them.  *)
(***************************************************************************)
\* the links of the corpus: <<n, k>> is link k of record n
CorpusLinks == {nk \in (1..Len(records)) \X (1..MaxLinks + 1) :
                    nk[2] <= Len(records[nk[1]].links)}
LinkOf(nk) == records[nk[1]].links[nk[2]]
SourceOf(nk) == records[nk[1]]
ResolutionOf(nk) == resolve_markdown_link(SourceOf(nk), LinkOf(nk).target)
IsSkipped(nk) == ResolutionOf(nk).skip_reason # ""

\* the part of the target before the first "#", and the path it names
PathPartOf(nk) ==
    LET t == LinkOf(nk).target
    IN IF IndexFrom(t, "#", 1) = 0 THEN t ELSE SubSeq(t, 1, IndexFrom(t, "#", 1) - 1)
PlainPathOf(nk) ==
    IF PathPartOf(nk) = <<>> THEN SourceOf(nk).path
    ELSE ResolvedPath(SourceOf(nk), PathPartOf(nk))

\* the `links` Problems raised for a link (the model has one link on a line)
LinkDiagnostics(nk) ==
    {i \in 1..Len(problems) :
        /\ problems[i].check = "links"
        /\ problems[i].path = SourceOf(nk).rel_path
        /\ problems[i].line = LinkOf(nk).line}
HasBrokenLink(nk) ==
    \E i \in LinkDiagnostics(nk) : problems[i].message = "broken link target"
HasMissingAnchor(nk) ==
    \E i \in LinkDiagnostics(nk) : problems[i].message = "missing anchor"

\* the path with `.md` appended to its last name
MdAppended(path) == Append(Parent(path), Name(path) \o DotMd)
IndexInside(path) == Append(path, <<"index", ".", "md">>)

\* C7: for a non-skipped link whose resolved path does not exist, a
\* broken-link diagnostic is emitted exactly when neither the path with `.md`
\* appended nor `index.md` inside it exists, and then it is the only one.
C7_BrokenIffNoneOfThree ==
    pc = "done" =>
        \A nk \in CorpusLinks :
            (~IsSkipped(nk) /\ ~exists(PlainPathOf(nk)))
                => /\ HasBrokenLink(nk) <=>
                        (/\ ~exists(MdAppended(PlainPathOf(nk)))
                         /\ ~exists(IndexInside(PlainPathOf(nk))))
                   /\ Cardinality(LinkDiagnostics(nk)) <= 1

\* the document of the corpus a link resolves to
ResolvesToDocument(nk) ==
    /\ ~IsSkipped(nk)
    /\ exists(resolve(ResolutionOf(nk).resolved))
    /\ HasRecord(records, resolve(ResolutionOf(nk).resolved))
TargetDocument(nk) == RecordAt(records, resolve(ResolutionOf(nk).resolved))
\* the fragment of the target: what follows the first "#"
FragmentOf(nk) ==
    LET t == LinkOf(nk).target
    IN IF IndexFrom(t, "#", 1) = 0 THEN <<>> ELSE SubSeq(t, IndexFrom(t, "#", 1) + 1, Len(t))

\* C8: a link with a (non-empty) anchor fragment that resolves to an existing
\* document of the corpus gets a missing-anchor diagnostic exactly when the
\* anchor is not in that document's anchor set; a skipped link and a link that
\* resolves to a file outside the corpus never get one.
C8_MissingAnchorIffNotMember ==
    pc = "done" =>
        \A nk \in CorpusLinks :
            /\ (ResolvesToDocument(nk) /\ FragmentOf(nk) # <<>>)
                => (HasMissingAnchor(nk) <=> FragmentOf(nk) \notin TargetDocument(nk).anchors)
            /\ (IsSkipped(nk) \/ ~ResolvesToDocument(nk)) => ~HasMissingAnchor(nk)

C8_Witness ==
    /\ pc = "done"
    /\ \E nk \in CorpusLinks :
         /\ LinkOf(nk).target = <<"guide", "#", "b">>
         /\ ResolvesToDocument(nk) /\ TargetDocument(nk).path = PathGuide
         /\ HasMissingAnchor(nk)
    /\ \E nk \in CorpusLinks :
         /\ LinkOf(nk).target = <<"#", "a">>
         /\ ResolvesToDocument(nk) /\ TargetDocument(nk).path = PathA
         /\ ~HasMissingAnchor(nk)
    /\ \E nk \in CorpusLinks :
         /\ SourceOf(nk).path = PathGuide
         /\ ResolvesToDocument(nk) /\ TargetDocument(nk).path = PathA
         /\ FragmentOf(nk) \in TargetDocument(nk).anchors
         /\ FragmentOf(nk) \in SourceOf(nk).anchors

(***************************************************************************)
(* validate_sop_headings and the `sop` command.                            *)
(***************************************************************************)
\* contracts.get(key, default)
Get(d, key, default) == IF key \in DOMAIN d THEN d[key] ELSE default

\* re.sub(r"\s+", " ", s): every run of whitespace becomes one space
RECURSIVE CollapseSpaces(_)
CollapseSpaces(s) ==
    IF s = <<>> THEN <<>>
    ELSE IF IsSpace(Head(s))
    THEN <<" ">> \o CollapseSpaces(lstrip(Tail(s)))
    ELSE <<Head(s)>> \o CollapseSpaces(Tail(s))

normalize_heading(value) == CollapseSpaces(strip(value))

RECURSIVE NormalizeAll(_)
NormalizeAll(hs) ==
    IF hs = <<>> THEN <<>> ELSE <<normalize_heading(Head(hs))>> \o NormalizeAll(Tail(hs))

\* lines 382-389 with a bug: the search restarts at the first heading
RECURSIVE RequiredLoop_NoAdvance(_, _, _, _)
RequiredLoop_NoAdvance(rel, hs, required, pos) ==
    IF required = <<>> THEN <<>>
    ELSE LET found_at == IndexFrom(hs, Head(required), 1)
         IN IF found_at = 0
            THEN <<Problem("sop", rel, "missing or out-of-order heading", Head(required), 0)>>
            ELSE RequiredLoop_NoAdvance(rel, hs, Tail(required), found_at + 1)

\* lines 382-389: the loop over the required headings; pos is 1-based here
RECURSIVE RequiredLoop(_, _, _, _)
RequiredLoop(rel, hs, required, pos) ==
    IF required = <<>> THEN <<>>
    ELSE LET found_at == IndexFrom(hs, Head(required), pos)
         IN IF found_at = 0
            THEN <<Problem("sop", rel, "missing or out-of-order heading", Head(required), 0)>>
            ELSE RequiredLoop(rel, hs, Tail(required), found_at + 1)

\* record.path.relative_to(docs_root()).parts
RelDocParts(record) == SubSeq(record.path, Len(docs_root) + 1, Len(record.path))

\* lines 378-390: the Problems of one record
SopProblems(record, required) ==
    IF RelDocParts(record) = <<>> \/ RelDocParts(record)[1] # <<"sop">> THEN <<>>
    ELSE RequiredLoop(record.rel_path, NormalizeAll(record.headings), required, 1)

RECURSIVE SopFrom(_, _, _)
SopFrom(recs, required, n) ==
    IF n > Len(recs) THEN <<>>
    ELSE SopProblems(recs[n], required) \o SopFrom(recs, required, n + 1)

validate_sop_headings(recs, ctr) ==
    SopFrom(recs, NormalizeAll(Get(ctr, "sop_required_headings", <<>>)), 1)

\* lines 775-776
CmdSop ==
    /\ pc = "dispatch"
    /\ args.command = "sop"
    /\ problems' = validate_sop_headings(records, contracts)
    /\ exit_code' = fail_if_problems(validate_sop_headings(records, contracts))
    /\ pc' = "done"
    /\ UNCHANGED <<records, parse_problems, localVars, worldVars, parseVars, extractVars>>

(***************************************************************************)
(* The `sop` command on a tree with one procedure document, docs/sop/b.md, *)
(* and one document outside `sop`, docs/guide.md.                          *)
(***************************************************************************)
MaxHeadings == 3       \* heading lines of the procedure document
MaxRequired == 3       \* headings the contract requires

PathSop == <<<<"docs">>, <<"sop">>, <<"b", ".", "md">>>>

HeadingLines == {
    <<"#", " ", "Goal">>,
    <<"#", "#", " ", "Steps">>,
    <<"#", " ", "Pre", " ", " ", "x">>
}
RequiredHeadings == {
    <<"Goal">>,
    <<"Steps">>,
    <<" ", "Pre", " ", " ", " ", "x">>
}

RECURSIVE SeqsUpTo(_, _)
SeqsUpTo(S, n) ==
    IF n = 0 THEN {<<>>}
    ELSE SeqsUpTo(S, n - 1)
         \cup {Append(q, x) : q \in {y \in SeqsUpTo(S, n - 1) : Len(y) = n - 1}, x \in S}

InitSop ==
    /\ IdleParse /\ IdleExtract /\ InitRun
    /\ \E hs \in SeqsUpTo(HeadingLines, MaxHeadings) :
         files = (PathSop :> File(FmOk \o hs))
                 @@ (PathGuide :> File(FmOk \o <<<<"#", " ", "Goal">>>>))
    /\ dirs = {}
    /\ \E req \in SeqsUpTo(RequiredHeadings, MaxRequired) :
         contracts = [sop_required_headings |-> req]
    /\ env = NoEnv
    /\ args = Args("sop")

NextSop == CollectDocs \/ CmdSop

SpecSop == InitSop /\ [][NextSop]_vars

\* the `sop` Problems of a record, by their position in problems
SopDiagnostics(n) ==
    {i \in 1..Len(problems) :
        problems[i].check = "sop" /\ problems[i].path = records[n].rel_path}

UnderSop(n) == Len(records[n].path) >= 3 /\ records[n].path[2] = <<"sop">>

\* r is a subsequence of h: in order, not necessarily contiguous
IsSubsequence(r, h) ==
    \E f \in [1..Len(r) -> 1..Len(h)] :
        /\ \A i \in 1..Len(r) : h[f[i]] = r[i]
        /\ \A i, j \in 1..Len(r) : i < j => f[i] < f[j]

RequiredNormalized == NormalizeAll(contracts.sop_required_headings)

\* the first required heading with which the required prefix stops being a
\* subsequence of the headings
FirstUnmatched(h) ==
    LET k == CHOOSE k \in 1..Len(RequiredNormalized) :
                 /\ ~IsSubsequence(SubSeq(RequiredNormalized, 1, k), h)
                 /\ IsSubsequence(SubSeq(RequiredNormalized, 1, k - 1), h)
    IN RequiredNormalized[k]

\* C6: a document under `sop` gets a `sop` diagnostic exactly when the
\* normalized required headings are not a subsequence of its normalized
\* headings; it gets at most one, naming the first required heading that
\* cannot be matched after the previous match.  A document outside `sop`
\* gets none.
C6_SopDiagnosticIffNotSubsequence ==
    pc = "done" =>
        \A n \in 1..Len(records) :
            LET h == NormalizeAll(records[n].headings)
            IN IF UnderSop(n)
               THEN /\ Cardinality(SopDiagnostics(n)) <= 1
                    /\ SopDiagnostics(n) # {} <=> ~IsSubsequence(RequiredNormalized, h)
                    /\ \A i \in SopDiagnostics(n) : problems[i].arg = FirstUnmatched(h)
               ELSE SopDiagnostics(n) = {}

C6_Witness ==
    /\ pc = "done"
    /\ \E n \in 1..Len(records) :
         /\ UnderSop(n)
         /\ records[n].headings = <<<<"Goal">>, <<"Steps">>>>
         /\ RequiredNormalized = <<<<"Goal">>, <<"Pre", " ", "x">>, <<"Steps">>>>
         /\ Cardinality(SopDiagnostics(n)) = 1
         /\ \A i \in SopDiagnostics(n) : problems[i].arg = <<"Pre", " ", "x">>
    /\ \E n \in 1..Len(records) :
         ~UnderSop(n) /\ ~IsSubsequence(RequiredNormalized, NormalizeAll(records[n].headings))

(***************************************************************************)
(* dt.date, parse_review_date, current_date and validate_frontmatter.      *)
(***************************************************************************)
\* dt.date(year, month, day); NoDate is the None parse_review_date returns
Date(y, m, d) == [year |-> y, month |-> m, day |-> d]
NoDate == Date(0, 0, 0)

IsDigit(c) == c \in NumberToks
DigitValue(c) == CHOOSE n \in 0..9 : IntStr(n) = c
AllDigits(s) == s # <<>> /\ \A i \in 1..Len(s) : IsDigit(s[i])

\* int() of a run of digits, and of an optionally signed one
RECURSIVE Decimal(_)
Decimal(s) ==
    IF s = <<>> THEN 0
    ELSE 10 * Decimal(SubSeq(s, 1, Len(s) - 1)) + DigitValue(s[Len(s)])
int(s) == IF s # <<>> /\ Head(s) = "-" THEN 0 - Decimal(Tail(s)) ELSE Decimal(s)

\* str() of an integer
RECURSIVE DecimalStr(_)
DecimalStr(n) ==
    IF n < 0 THEN <<"-">> \o DecimalStr(0 - n)
    ELSE IF n < 10 THEN <<IntStr(n)>>
    ELSE DecimalStr(n \div 10) \o <<IntStr(n % 10)>>

\* the calendar of dt.date
is_leap(y) == y % 4 = 0 /\ (y % 100 # 0 \/ y % 400 = 0)
days_in_month(y, m) ==
    IF m = 2 /\ is_leap(y) THEN 29
    ELSE <<31, 28, 31, 30, 31, 30, 31, 31, 30, 31, 30, 31>>[m]
days_before_year(y) ==
    (y - 1) * 365 + (y - 1) \div 4 - (y - 1) \div 100 + (y - 1) \div 400
RECURSIVE days_before_month(_, _)
days_before_month(y, m) ==
    IF m = 1 THEN 0 ELSE days_before_month(y, m - 1) + days_in_month(y, m - 1)
toordinal(d) == days_before_year(d.year) + days_before_month(d.year, d.month) + d.day

\* dt.date.fromisoformat on YYYY-MM-DD; anything else in the model's texts
\* raises ValueError
IsIsoDate(value) ==
    /\ Len(value) = 10
    /\ value[5] = "-" /\ value[8] = "-"
    /\ AllDigits(SubSeq(value, 1, 4))
    /\ AllDigits(SubSeq(value, 6, 7))
    /\ AllDigits(SubSeq(value, 9, 10))
    /\ Decimal(SubSeq(value, 1, 4)) >= 1
    /\ Decimal(SubSeq(value, 6, 7)) \in 1..12
    /\ Decimal(SubSeq(value, 9, 10)) >= 1
    /\ Decimal(SubSeq(value, 9, 10))
          <= days_in_month(Decimal(SubSeq(value, 1, 4)), Decimal(SubSeq(value, 6, 7)))
fromisoformat(value) ==
    Date(Decimal(SubSeq(value, 1, 4)), Decimal(SubSeq(value, 6, 7)),
         Decimal(SubSeq(value, 9, 10)))

parse_review_date(value) == IF IsIsoDate(value) THEN fromisoformat(value) ELSE NoDate

\* env.today is what dt.date.today() returns; DOCS_TODAY is a valid date in
\* every environment of the model
current_date(e) ==
    IF Get(e, "DOCS_TODAY", <<>>) # <<>> THEN fromisoformat(e.DOCS_TODAY) ELSE e.today

\* line 292
stale_days(ctr, e) ==
    IF "DOCS_STALE_REVIEW_DAYS" \in DOMAIN e THEN int(e.DOCS_STALE_REVIEW_DAYS)
    ELSE Get(ctr, "stale_review_days", 180)

\* fm.get(key): NoneV is None
NoneV == [t |-> "none", s |-> <<>>, b |-> FALSE, l |-> <<>>]
GetV(fm, key) == IF key \in DOMAIN fm THEN fm[key] ELSE NoneV
IsStr(v) == v.t = "str"
When(cond, problem) == IF cond THEN <<problem>> ELSE <<>>

\* lines 297-299
RECURSIVE MissingFields(_, _, _)
MissingFields(rel, fm, fields) ==
    IF fields = <<>> THEN <<>>
    ELSE When(Head(fields) \notin DOMAIN fm,
              Problem("frontmatter", rel, "missing required field", Head(fields), 0))
         \o MissingFields(rel, fm, Tail(fields))

\* lines 322-338 with a bug: a review exactly stale_days old is stale
ReviewProblems_AtThreshold(rel, fm, today, stale) ==
    LET reviewed == GetV(fm, <<"last_reviewed">>)
        review_date == parse_review_date(reviewed.s)
        age_days == toordinal(today) - toordinal(review_date)
    IN IF ~IsStr(reviewed)
       THEN <<Problem("frontmatter", rel, "last_reviewed must be an ISO date string", <<>>, 0)>>
       ELSE IF review_date = NoDate
       THEN <<Problem("frontmatter", rel, "last_reviewed is not a valid ISO date", <<>>, 0)>>
       ELSE When(age_days >= stale,
                 Problem("frontmatter", rel, "last_reviewed is stale",
                         DecimalStr(age_days) \o <<" ", "days", " ", ">", " ">>
                         \o DecimalStr(stale), 0))

\* lines 322-338
ReviewProblems(rel, fm, today, stale) ==
    LET reviewed == GetV(fm, <<"last_reviewed">>)
        review_date == parse_review_date(reviewed.s)
        age_days == toordinal(today) - toordinal(review_date)
    IN IF ~IsStr(reviewed)
       THEN <<Problem("frontmatter", rel, "last_reviewed must be an ISO date string", <<>>, 0)>>
       ELSE IF review_date = NoDate
       THEN <<Problem("frontmatter", rel, "last_reviewed is not a valid ISO date", <<>>, 0)>>
       ELSE When(age_days > stale,
                 Problem("frontmatter", rel, "last_reviewed is stale",
                         DecimalStr(age_days) \o <<" ", "days", " ", ">", " ">>
                         \o DecimalStr(stale), 0))

\* lines 340-347
ListFieldProblems(rel, fm, list_field) ==
    LET value == GetV(fm, <<list_field>>)
    IN IF value.t # "list" \/ value.l = <<>>
       THEN <<Problem("frontmatter", rel, "must be a non-empty list", <<list_field>>, 0)>>
       ELSE When(~\A i \in 1..Len(value.l) :
                      IsStr(value.l[i]) /\ strip(value.l[i].s) # <<>>,
                 Problem("frontmatter", rel, "must contain non-empty strings",
                         <<list_field>>, 0))

\* re.match(r"ADR-\d{4}[-_a-zA-Z0-9]*\.md$", name)
AdrNameMatch(name) ==
    /\ Len(name) >= 8
    /\ SubSeq(name, 1, 2) = <<"ADR", "-">>
    /\ \A i \in 3..6 : IsDigit(name[i])
    /\ LET rest == SubSeq(name, 7, Len(name))
       IN SubSeq(rest, KeySpan(rest) + 1, Len(rest)) = DotMd

\* lines 349-368
FolderProblems(record, category, ctr) ==
    LET rel_doc == RelDocParts(record)
        folder == rel_doc[1]
        expected == Get(Get(ctr, "diataxis_category_by_folder", <<>>), folder, <<>>)
    IN IF Len(rel_doc) = 1
       THEN When(IsStr(category)
                    /\ category.s \notin Get(ctr, "root_docs_allowed_categories", {}),
                 Problem("diataxis", record.rel_path,
                         "root docs page category not allowed", category.s, 0))
       ELSE When(expected # <<>> /\ ~(IsStr(category) /\ category.s = expected),
                 Problem("diataxis", record.rel_path,
                         "category does not match folder", folder, 0))
            \o When(folder = <<"adr">> /\ ~AdrNameMatch(Name(record.path)),
                    Problem("adr", record.rel_path,
                            "ADR filename must match ADR-0000-name.md", <<>>, 0))

\* lines 294-368: the Problems of one record
FrontmatterProblems(record, ctr, e) ==
    LET fm == record.frontmatter
        rel == record.rel_path
        title == GetV(fm, <<"title">>)
        category == GetV(fm, <<"category">>)
        owner == GetV(fm, <<"owner">>)
        status == GetV(fm, <<"status">>)
    IN MissingFields(rel, fm, Get(ctr, "required_frontmatter", <<>>))
       \o IF fm = <<>> THEN <<>>
          ELSE When(~IsStr(title) \/ strip(title.s) = <<>>,
                    Problem("frontmatter", rel, "title must be a non-empty string", <<>>, 0))
               \o When(~IsStr(category)
                          \/ category.s \notin Get(ctr, "allowed_categories", {}),
                       Problem("frontmatter", rel, "category must be one of", <<>>, 0))
               \o When(~IsStr(owner) \/ owner.s \notin Get(ctr, "allowed_owners", {}),
                       Problem("frontmatter", rel, "owner must be one of", <<>>, 0))
               \o When(~IsStr(status) \/ status.s \notin Get(ctr, "allowed_statuses", {}),
                       Problem("frontmatter", rel, "status must be one of", <<>>, 0))
               \o When(IsStr(status) /\ status.s = <<"superseded">>
                          /\ ~IsStr(GetV(fm, <<"superseded_by">>)),
                       Problem("frontmatter", rel,
                               "superseded docs must declare superseded_by", <<>>, 0))
               \o ReviewProblems(rel, fm, current_date(e), stale_days(ctr, e))
               \o ListFieldProblems(rel, fm, "audience")
               \o ListFieldProblems(rel, fm, "invariants")
               \o FolderProblems(record, category, ctr)

RECURSIVE FrontmatterFrom(_, _, _, _)
FrontmatterFrom(recs, ctr, e, n) ==
    IF n > Len(recs) THEN <<>>
    ELSE FrontmatterProblems(recs[n], ctr, e) \o FrontmatterFrom(recs, ctr, e, n + 1)

validate_frontmatter(recs, ctr, e) == FrontmatterFrom(recs, ctr, e, 1)

\* lines 773-774
CmdFrontmatter ==
    /\ pc = "dispatch"
    /\ args.command = "frontmatter"
    /\ problems' = parse_problems \o validate_frontmatter(records, contracts, env)
    /\ exit_code' = fail_if_problems(parse_problems
                                     \o validate_frontmatter(records, contracts, env))
    /\ pc' = "done"
    /\ UNCHANGED <<records, parse_problems, localVars, worldVars, parseVars, extractVars>>

(***************************************************************************)
(* The `frontmatter` command on docs/a.md and docs/guide.md, whose         *)
(* metadata holds a last_reviewed value, under several clocks, DOCS_TODAY  *)
(* overrides and staleness thresholds.                                     *)
(***************************************************************************)
\* date.isoformat(): YYYY-MM-DD
Pad(n, width) ==
    LET str == DecimalStr(n)
    IN [i \in 1..(width - Len(str)) |-> "0"] \o str
isoformat(d) == Pad(d.year, 4) \o <<"-">> \o Pad(d.month, 2) \o <<"-">> \o Pad(d.day, 2)

ReviewValues == {
    isoformat(Date(2024, 3, 1)),
    isoformat(Date(2024, 3, 2)),
    isoformat(Date(2024, 2, 29)),
    isoformat(Date(2024, 2, 28)),
    isoformat(Date(2024, 1, 31)),
    isoformat(Date(2024, 1, 30)),
    isoformat(Date(2025, 3, 2)),
    isoformat(Date(2023, 2, 29)),
    isoformat(Date(2024, 13, 1)),
    <<"\"">> \o isoformat(Date(2024, 3, 1)) \o <<"\"">>,
    <<"2", "0", "2", "4", "-", "3", "-", "1">>,
    <<"true">>,
    <<"x">>
}
GuideReviewValues == {
    isoformat(Date(2024, 3, 2)),
    isoformat(Date(2024, 1, 31)),
    <<"[", "x", "]">>
}
TodayOverrides == {<<>>, isoformat(Date(2024, 3, 1)), isoformat(Date(2024, 8, 28)),
                   isoformat(Date(2025, 3, 1))}
Clocks == {Date(2024, 3, 2), Date(2024, 8, 29)}
EnvStaleDays == {<<"0">>, <<"3", "0">>}
ContractStaleDays == {1, 366}

ReviewedDoc(value) ==
    File(<<FRONTMATTER_DELIM,
           <<"title", ":", " ", "x">>,
           <<"last_reviewed", ":", " ">> \o value,
           FRONTMATTER_DELIM>>)

InitStale ==
    /\ IdleParse /\ IdleExtract /\ InitRun
    /\ \E v \in ReviewValues, w \in GuideReviewValues :
         files = (PathA :> ReviewedDoc(v)) @@ (PathGuide :> ReviewedDoc(w))
    /\ dirs = {}
    /\ \/ contracts = [sop_required_headings |-> <<>>]
       \/ \E t \in ContractStaleDays :
            contracts = [sop_required_headings |-> <<>>, stale_review_days |-> t]
    /\ \E o \in TodayOverrides, c \in Clocks :
         \/ env = [DOCS_TODAY |-> o, today |-> c]
         \/ \E t \in EnvStaleDays :
              env = [DOCS_TODAY |-> o, today |-> c, DOCS_STALE_REVIEW_DAYS |-> t]
    /\ args = Args("frontmatter")

NextStale == CollectDocs \/ CmdFrontmatter

SpecStale == InitStale /\ [][NextStale]_vars

\* the days of the years the model's dates lie in
MonthLength(y, m) ==
    CASE m \in {4, 6, 9, 11} -> 30
      [] m = 2 -> IF y = 2024 THEN 29 ELSE 28
      [] OTHER -> 31
Calendar ==
    {d \in [year : 2023..2025, month : 1..12, day : 1..31] :
        d.day <= MonthLength(d.year, d.month)}
Earlier(a, b) ==
    \/ a.year < b.year
    \/ a.year = b.year /\ a.month < b.month
    \/ a.year = b.year /\ a.month = b.month /\ a.day < b.day
DaysFrom(a, b) == Cardinality({d \in Calendar : ~Earlier(d, a) /\ Earlier(d, b)})
\* today minus reviewed, in days
AgeInDays(reviewed, today) ==
    IF Earlier(today, reviewed) THEN 0 - DaysFrom(today, reviewed)
    ELSE DaysFrom(reviewed, today)

\* the text of a calendar day, written out
DayText(d) ==
    LET two(n) == <<IntStr(n \div 10), IntStr(n % 10)>>
    IN two(d.year \div 100) \o two(d.year % 100) \o <<"-">> \o two(d.month)
       \o <<"-">> \o two(d.day)
DayOfText(text) == CHOOSE d \in Calendar : DayText(d) = text

HasValidReview(n) ==
    /\ records[n].frontmatter # <<>>
    /\ <<"last_reviewed">> \in DOMAIN records[n].frontmatter
    /\ records[n].frontmatter[<<"last_reviewed">>].t = "str"
    /\ \E d \in Calendar : DayText(d) = records[n].frontmatter[<<"last_reviewed">>].s
ReviewDay(n) == DayOfText(records[n].frontmatter[<<"last_reviewed">>].s)
Today == IF env.DOCS_TODAY # <<>> THEN DayOfText(env.DOCS_TODAY) ELSE env.today
Threshold == stale_days(contracts, env)

StaleDiagnostics(n) ==
    {i \in 1..Len(problems) :
        /\ problems[i].check = "frontmatter"
        /\ problems[i].path = records[n].rel_path
        /\ problems[i].message = "last_reviewed is stale"}

\* C9: a document with non-empty metadata and a valid last_reviewed date is
\* flagged stale exactly when today minus last_reviewed, in days, is greater
\* than the threshold: T+1 days is stale, T days is not.
C9_StaleIffOlderThanThreshold ==
    pc = "done" =>
        \A n \in 1..Len(records) :
            HasValidReview(n) =>
                (StaleDiagnostics(n) # {} <=> AgeInDays(ReviewDay(n), Today) > Threshold)

C9_Witness ==
    /\ pc = "done"
    /\ \E n, m \in 1..Len(records) :
         /\ HasValidReview(n) /\ HasValidReview(m)
         /\ AgeInDays(ReviewDay(n), Today) = Threshold + 1
         /\ StaleDiagnostics(n) # {}
         /\ AgeInDays(ReviewDay(m), Today) = Threshold
         /\ StaleDiagnostics(m) = {}
         /\ Threshold = 30

(***************************************************************************)
(* validate_structure.                                                     *)
(***************************************************************************)
RECURSIVE StructureFrom(_)
StructureFrom(dirnames) ==
    IF dirnames = <<>> THEN <<>>
    ELSE When(~exists(docs_root \o PathParts(Head(dirnames))),
              Problem("structure", <<"docs", "/">> \o Head(dirnames),
                      "required directory is missing", <<>>, 0))
         \o StructureFrom(Tail(dirnames))

validate_structure(ctr) == StructureFrom(Get(ctr, "required_docs_directories", <<>>))

(***************************************************************************)
(* extract_fenced_mermaid_blocks, render_mermaid_sources, validate_mermaid.*)
(***************************************************************************)
\* "\n".join(lines).strip(): blank lines go from both ends, then the
\* whitespace at the start of the first line and at the end of the last
RECURSIVE DropBlankHead(_)
DropBlankHead(lines) ==
    IF lines # <<>> /\ strip(Head(lines)) = <<>> THEN DropBlankHead(Tail(lines)) ELSE lines
RECURSIVE DropBlankTail(_)
DropBlankTail(lines) ==
    IF lines # <<>> /\ strip(lines[Len(lines)]) = <<>>
    THEN DropBlankTail(SubSeq(lines, 1, Len(lines) - 1))
    ELSE lines
StripText(lines) ==
    LET kept == DropBlankTail(DropBlankHead(lines))
    IN IF kept = <<>> THEN <<>>
       ELSE IF Len(kept) = 1 THEN <<strip(kept[1])>>
       ELSE <<lstrip(kept[1])>> \o SubSeq(kept, 2, Len(kept) - 1)
            \o <<rstrip(kept[Len(kept)])>>

\* lines 486-509: one line of the body; st = [blocks, problems, in_fence,
\* fence_lang, fence_start_line, buffer]
MermaidLine(rel, st, line_no, line) ==
    IF FenceMatch(line)
    THEN IF ~st.in_fence
         THEN [st EXCEPT !.in_fence = TRUE,
                         !.fence_lang = LowerAll(strip(FenceLang(line))),
                         !.fence_start_line = line_no,
                         !.buffer = <<>>]
         ELSE LET source == StripText(st.buffer)
                  closed == [st EXCEPT !.in_fence = FALSE, !.fence_lang = <<>>,
                                       !.buffer = <<>>]
              IN IF st.fence_lang # <<"mermaid">> THEN closed
                 ELSE IF source = <<>>
                 THEN [closed EXCEPT !.problems =
                          Append(st.problems,
                                 Problem("mermaid", rel, "empty mermaid block", <<>>,
                                         st.fence_start_line))]
                 ELSE [closed EXCEPT !.blocks =
                          Append(st.blocks, [line |-> st.fence_start_line,
                                             source |-> source])]
    ELSE IF st.in_fence THEN [st EXCEPT !.buffer = Append(st.buffer, line)]
    ELSE st

RECURSIVE MermaidLines(_, _, _, _)
MermaidLines(rel, st, lines, line_no) ==
    IF line_no > Len(lines) THEN st
    ELSE MermaidLines(rel, MermaidLine(rel, st, line_no, lines[line_no]), lines, line_no + 1)

extract_fenced_mermaid_blocks(record) ==
    LET st == MermaidLines(record.rel_path,
                           [blocks |-> <<>>, problems |-> <<>>, in_fence |-> FALSE,
                            fence_lang |-> <<>>, fence_start_line |-> 0,
                            buffer |-> <<>>],
                           record.body, 1)
    IN [blocks |-> st.blocks,
        problems |-> st.problems
                     \o When(st.in_fence,
                             Problem("mermaid", record.rel_path, "unclosed code fence",
                                     <<>>, st.fence_start_line))]

\* (result.stderr or result.stdout or default).strip().splitlines()[-1]; the
\* tools of the model print at least one non-blank line when they fail
LastLine(output, default) ==
    LET text == StripText(IF output # <<>> THEN output ELSE <<default>>)
    IN text[Len(text)]

\* lines 525-540: the renderer runs on every source; a source is
\* [label, line, source]
RECURSIVE RenderFrom(_, _)
RenderFrom(mmdc, sources) ==
    IF sources = <<>> THEN <<>>
    ELSE When(Head(sources).source \in mmdc.rejects,
              Problem("mermaid", Head(sources).label, "render validation failed",
                      LastLine(mmdc.output, <<"mmdc", " ", "failed">>),
                      Head(sources).line))
         \o RenderFrom(mmdc, Tail(sources))

\* e.mmdc is what shutil.which("mmdc") finds and what that binary does
render_mermaid_sources(sources, require_renderer, e) ==
    IF ~e.mmdc.installed
    THEN When(require_renderer /\ sources # <<>>,
              Problem("mermaid", <<"mmdc">>,
                      "mermaid-cli (mmdc) is required but not installed", <<>>, 0))
    ELSE RenderFrom(e.mmdc, sources)

RECURSIVE BlockSources(_, _)
BlockSources(rel, blocks) ==
    IF blocks = <<>> THEN <<>>
    ELSE <<[label |-> rel, line |-> Head(blocks).line, source |-> Head(blocks).source]>>
         \o BlockSources(rel, Tail(blocks))

\* lines 549-554: st = [problems, sources]
RECURSIVE MermaidRecords(_, _)
MermaidRecords(recs, n) ==
    IF n > Len(recs) THEN [problems |-> <<>>, sources |-> <<>>]
    ELSE LET ex == extract_fenced_mermaid_blocks(recs[n])
             rest == MermaidRecords(recs, n + 1)
         IN [problems |-> ex.problems \o rest.problems,
             sources |-> BlockSources(recs[n].rel_path, ex.blocks) \o rest.sources]

\* sorted((docs_root() / "assets").rglob("*.mmd"))
DotMmd == <<".", "mmd">>
IsAssetPath(path) ==
    /\ IsPrefix(Append(docs_root, <<"assets">>), path)
    /\ Len(path) > Len(docs_root) + 1
    /\ endswith(Name(path), DotMmd)
    /\ path \in DOMAIN files

\* lines 556-563
RECURSIVE MermaidAssets(_)
MermaidAssets(paths) ==
    IF paths = <<>> THEN [problems |-> <<>>, sources |-> <<>>]
    ELSE LET source == StripText(files[Head(paths)].text)
             rel == as_posix(Head(paths))
             rest == MermaidAssets(Tail(paths))
         IN IF source = <<>>
            THEN [problems |-> <<Problem("mermaid", rel, "empty .mmd diagram file", <<>>, 0)>>
                               \o rest.problems,
                  sources |-> rest.sources]
            ELSE [problems |-> rest.problems,
                  sources |-> <<[label |-> rel, line |-> 0, source |-> source]>>
                              \o rest.sources]

validate_mermaid(recs, require_renderer, e) ==
    LET docs == MermaidRecords(recs, 1)
        assets == MermaidAssets(SelectSeq(SortedPaths, IsAssetPath))
        sources == docs.sources \o assets.sources
    IN [problems |-> docs.problems \o assets.problems
                     \o render_mermaid_sources(sources, require_renderer, e),
        count |-> Len(sources)]

(***************************************************************************)
(* basic_openapi_sanity_check and validate_openapi.                        *)
(***************************************************************************)
\* the text of a file as one string: its lines, a newline after each
RECURSIVE Flatten(_)
Flatten(lines) ==
    IF lines = <<>> THEN <<>> ELSE Head(lines) \o <<"\n">> \o Flatten(Tail(lines))

\* \s*: the position after the whitespace, newlines included, from p on
RECURSIVE SkipWhitespace(_, _)
SkipWhitespace(s, p) ==
    IF p <= Len(s) /\ (IsSpace(s[p]) \/ s[p] = "\n") THEN SkipWhitespace(s, p + 1) ELSE p

\* re.search(r"^\s*(openapi|swagger)\s*:\s*", text, flags=re.MULTILINE)
DeclaresVersion(lines) ==
    LET s == Flatten(lines)
    IN \E p \in 1..Len(s) :
         /\ p = 1 \/ s[p - 1] = "\n"
         /\ LET w == SkipWhitespace(s, p)
            IN /\ w <= Len(s)
               /\ s[w] \in {"openapi", "swagger"}
               /\ SkipWhitespace(s, w + 1) <= Len(s)
               /\ s[SkipWhitespace(s, w + 1)] = ":"

\* the error basic_openapi_sanity_check returns, <<>> for None
basic_openapi_sanity_check(path) ==
    IF LowerAll(Suffix(Name(path))) = <<".", "json">>
    THEN IF ~files[path].json.valid THEN <<"invalid", " ", "JSON">>
         ELSE IF ~files[path].json.dict
                 \/ files[path].json.keys \cap {"openapi", "swagger"} = {}
         THEN <<"missing", " ", "openapi", " ", "or", " ", "swagger", " ", "key">>
         ELSE <<>>
    ELSE IF DeclaresVersion(files[path].text) THEN <<>>
    ELSE <<"missing", " ", "openapi", ":", " ", "or", " ", "swagger", ":">>

\* lines 588-592: the files under docs/reference/openapi with a spec suffix
IsSpecPath(path) ==
    /\ IsPrefix(docs_root \o <<<<"reference">>, <<"openapi">>>>, path)
    /\ Len(path) > Len(docs_root) + 2
    /\ is_file(path)
    /\ LowerAll(Suffix(Name(path))) \in {<<".", "yaml">>, <<".", "yml">>, <<".", "json">>}

\* lines 603-618: e.swagger_cli is what shutil.which("swagger-cli") finds and
\* what that binary does
RECURSIVE SpecProblems(_, _)
SpecProblems(specs, e) ==
    IF specs = <<>> THEN <<>>
    ELSE LET spec == Head(specs)
             rel == as_posix(spec)
         IN (IF e.swagger_cli.installed
             THEN When(spec \in e.swagger_cli.rejects,
                       Problem("openapi", rel, "swagger-cli validate",
                               LastLine(e.swagger_cli.output,
                                        <<"swagger", "-", "cli", " ", "validate", " ", "failed">>),
                               0))
             ELSE When(basic_openapi_sanity_check(spec) # <<>>,
                       Problem("openapi", rel, "sanity check",
                               basic_openapi_sanity_check(spec), 0)))
            \o SpecProblems(Tail(specs), e)

validate_openapi(require_validator, e) ==
    LET specs == SelectSeq(SortedPaths, IsSpecPath)
    IN IF specs = <<>> THEN [problems |-> <<>>, count |-> 0]
       ELSE IF require_validator /\ ~e.swagger_cli.installed
       THEN [problems |-> <<Problem("openapi", <<"swagger", "-", "cli">>,
                                    "OpenAPI validator (swagger-cli) is required but not installed",
                                    <<>>, 0)>>,
             count |-> Len(specs)]
       ELSE [problems |-> SpecProblems(specs, e), count |-> Len(specs)]

(***************************************************************************)
(* run_all: the `all` command, one statement of run_all at a time.         *)
(***************************************************************************)
\* problems.extend(more) with a bug: nothing is added to a list that already
\* holds a Problem
extend_FirstOnly(ps, more) == IF ps # <<>> THEN ps ELSE ps \o more

\* problems.extend(more)
extend(ps, more) == ps \o more

\* lines 779-780 and 670-671
RunStructure ==
    /\ pc = "dispatch"
    /\ args.command = "all"
    /\ problems' = extend(parse_problems, validate_structure(contracts))
    /\ pc' = "frontmatter"
    /\ UNCHANGED <<records, parse_problems, localVars, exit_code, worldVars,
                   parseVars, extractVars>>

\* line 672
RunFrontmatter ==
    /\ pc = "frontmatter"
    /\ problems' = extend(problems, validate_frontmatter(records, contracts, env))
    /\ pc' = "sop"
    /\ UNCHANGED <<records, parse_problems, localVars, exit_code, worldVars,
                   parseVars, extractVars>>

\* line 673
RunSop ==
    /\ pc = "sop"
    /\ problems' = extend(problems, validate_sop_headings(records, contracts))
    /\ pc' = "links"
    /\ UNCHANGED <<records, parse_problems, localVars, exit_code, worldVars,
                   parseVars, extractVars>>

\* line 674
RunLinks ==
    /\ pc = "links"
    /\ problems' = extend(problems, validate_links(records))
    /\ pc' = "mermaid"
    /\ UNCHANGED <<records, parse_problems, localVars, exit_code, worldVars,
                   parseVars, extractVars>>

\* line 675
RunMermaid ==
    /\ pc = "mermaid"
    /\ mermaid_problems' =
          validate_mermaid(records, Get(args, "require_renderer", FALSE), env).problems
    /\ pc' = "openapi"
    /\ UNCHANGED <<records, parse_problems, problems, openapi_problems, audit,
                   exit_code, worldVars, parseVars, extractVars>>

\* line 676
RunOpenapi ==
    /\ pc = "openapi"
    /\ openapi_problems' =
          validate_openapi(Get(args, "require_openapi_validator", FALSE), env).problems
    /\ pc' = "report"
    /\ UNCHANGED <<records, parse_problems, problems, mermaid_problems, audit,
                   exit_code, worldVars, parseVars, extractVars>>

\* lines 677-679
RunReport ==
    /\ pc = "report"
    /\ problems' = extend(extend(problems, mermaid_problems), openapi_problems)
    /\ exit_code' = fail_if_problems(extend(extend(problems, mermaid_problems),
                                            openapi_problems))
    /\ pc' = "done"
    /\ UNCHANGED <<records, parse_problems, localVars, worldVars, parseVars, extractVars>>

(***************************************************************************)
(* frontmatter_freshness_metrics, counts_by_category and                   *)
(* write_audit_report: the `audit-report` command.                         *)
(***************************************************************************)
\* line 652 with a bug: a review exactly stale days old is not fresh
IsFresh_Strict(today, parsed, stale) == toordinal(today) - toordinal(parsed) < stale

\* line 652: (today - parsed).days <= stale_days
IsFresh(today, parsed, stale) == toordinal(today) - toordinal(parsed) <= stale

\* lines 644-655: the loop over the records from the n-th on
RECURSIVE FreshnessFrom(_, _, _, _)
FreshnessFrom(recs, today, stale, n) ==
    IF n > Len(recs) THEN [fresh |-> 0, total |-> 0, stale_docs |-> <<>>]
    ELSE LET rest == FreshnessFrom(recs, today, stale, n + 1)
             reviewed == GetV(recs[n].frontmatter, <<"last_reviewed">>)
             parsed == parse_review_date(reviewed.s)
         IN IF ~IsStr(reviewed) THEN rest
            ELSE IF parsed = NoDate THEN rest
            ELSE IF IsFresh(today, parsed, stale)
            THEN [rest EXCEPT !.fresh = @ + 1, !.total = @ + 1]
            ELSE [rest EXCEPT !.total = @ + 1,
                              !.stale_docs = <<recs[n].rel_path>> \o @]

frontmatter_freshness_metrics(recs, ctr, e) ==
    FreshnessFrom(recs, current_date(e), stale_days(ctr, e), 1)

\* lines 662-664
CategoryOf(record) ==
    LET category == IF <<"category">> \in DOMAIN record.frontmatter
                    THEN record.frontmatter[<<"category">>]
                    ELSE StrV(<<"unknown">>)
    IN IF IsStr(category) THEN category.s ELSE <<"unknown">>

\* the dict of the Counter: category -> number of records
counts_by_category(recs) ==
    [c \in {CategoryOf(recs[n]) : n \in 1..Len(recs)} |->
        Cardinality({n \in 1..Len(recs) : CategoryOf(recs[n]) = c})]

\* round(x, 2) of the quotient num / den, in hundredths; a tie (a remainder of
\* exactly one half) needs den to be a multiple of 32 or of 3125
RoundHundredths(num, den) ==
    LET q == (num * 100) \div den
        r == (num * 100) % den
    IN IF 2 * r > den \/ (2 * r = den /\ q % 2 = 1) THEN q + 1 ELSE q

\* line 691 with a bug: a corpus without reviewed documents counts as all fresh
fresh_percent_AllFresh(fresh, total_reviewed) ==
    IF total_reviewed # 0 THEN RoundHundredths(fresh * 100, total_reviewed) ELSE 10000

\* line 691: the percentage in hundredths of a percent (3333 is 33.33)
fresh_percent(fresh, total_reviewed) ==
    IF total_reviewed # 0 THEN RoundHundredths(fresh * 100, total_reviewed) ELSE 0

\* lines 693-712: a is the record of the locals; the clock of the model
\* counts days, so generated_at is the day it reads
Report(recs, parse, a, mermaid, openapi, e) ==
    [generated_at |-> e.today,
     document_count |-> Len(recs),
     markdown_count |-> Len(recs),
     counts_by_category |-> counts_by_category(recs),
     fresh_review_percent |-> a.fresh_percent,
     stale_documents |-> a.stale_docs,
     broken_internal_links |->
         Len(SelectSeq(a.link_problems, LAMBDA p : p.check = "links")),
     mermaid_block_count |-> a.mermaid_count,
     openapi_spec_count |-> a.openapi_count,
     validation_issue_counts |->
         [parse |-> Len(parse),
          structure |-> Len(a.structure_problems),
          frontmatter |-> Len(a.frontmatter_problems),
          sop |-> Len(a.sop_problems),
          links |-> Len(a.link_problems),
          mermaid |-> Len(mermaid),
          openapi |-> Len(openapi)]]

\* lines 718-726 with a bug: the parse-time Problems are left out
all_problems_ChecksOnly(parse, a, mermaid, openapi) ==
    a.structure_problems \o a.frontmatter_problems \o a.sop_problems
    \o a.link_problems \o mermaid \o openapi

\* lines 718-726
all_problems(parse, a, mermaid, openapi) ==
    parse \o a.structure_problems \o a.frontmatter_problems \o a.sop_problems
    \o a.link_problems \o mermaid \o openapi

\* lines 714-715: mkdir(parents=True, exist_ok=True) raises when the parent
\* or a directory above it is a regular file, write_text when the output path
\* is a directory; output is relative to the root of the repository
CanWrite(output) ==
    /\ output # <<>>
    /\ \A k \in 1..(Len(output) - 1) : ~is_file(SubSeq(output, 1, k))
    /\ ~is_dir(output)

\* the file json.dumps(report) + "\n" makes, kept as what json.load gives
\* back for it
Dumped(report) ==
    [json |-> [valid |-> TRUE, dict |-> TRUE, keys |-> DOMAIN report, value |-> report]]

\* lines 789-790 and 683-688
AuditChecks ==
    /\ pc = "dispatch"
    /\ args.command = "audit-report"
    /\ audit' = [audit EXCEPT
                    !.structure_problems = validate_structure(contracts),
                    !.frontmatter_problems = validate_frontmatter(records, contracts, env),
                    !.sop_problems = validate_sop_headings(records, contracts),
                    !.link_problems = validate_links(records),
                    !.mermaid_count = validate_mermaid(records, FALSE, env).count,
                    !.openapi_count = validate_openapi(FALSE, env).count]
    /\ mermaid_problems' = validate_mermaid(records, FALSE, env).problems
    /\ openapi_problems' = validate_openapi(FALSE, env).problems
    /\ pc' = "metrics"
    /\ UNCHANGED <<records, parse_problems, problems, exit_code, worldVars,
                   parseVars, extractVars>>

\* lines 690-712
AuditReport ==
    /\ pc = "metrics"
    /\ LET m == frontmatter_freshness_metrics(records, contracts, env)
           a == [audit EXCEPT !.fresh = m.fresh, !.total_reviewed = m.total,
                              !.stale_docs = m.stale_docs,
                              !.fresh_percent = fresh_percent(m.fresh, m.total)]
       IN audit' = [a EXCEPT !.report = Report(records, parse_problems, a,
                                               mermaid_problems, openapi_problems, env)]
    /\ pc' = "write"
    /\ UNCHANGED <<records, parse_problems, problems, mermaid_problems,
                   openapi_problems, exit_code, worldVars, parseVars, extractVars>>

\* lines 714-716
AuditWrite ==
    /\ pc = "write"
    /\ CanWrite(args.output)
    /\ files' = (args.output :> Dumped(audit.report))
                @@ [path \in DOMAIN files \ {args.output} |-> files[path]]
    /\ dirs' = {d \in dirs : ~IsPrefix(d, args.output)}
    /\ pc' = "exit"
    /\ UNCHANGED <<contracts, env, args, records, parse_problems, problems, localVars,
                   exit_code, parseVars, extractVars>>

\* lines 714-715: the OSError leaves main(); nothing is written and no exit
\* code is returned
AuditAbort ==
    /\ pc = "write"
    /\ ~CanWrite(args.output)
    /\ pc' = "aborted"
    /\ UNCHANGED <<records, parse_problems, problems, localVars, exit_code, worldVars,
                   parseVars, extractVars>>

\* lines 718-732
AuditExit ==
    /\ pc = "exit"
    /\ problems' = all_problems(parse_problems, audit, mermaid_problems, openapi_problems)
    /\ exit_code' = IF all_problems(parse_problems, audit, mermaid_problems,
                                    openapi_problems) # <<>> THEN 1 ELSE 0
    /\ pc' = "done"
    /\ UNCHANGED <<records, parse_problems, localVars, worldVars, parseVars, extractVars>>

(***************************************************************************)
(* The `all` command on trees built from whole documents: valid ones, ones *)
(* whose metadata block does not parse, ones with diagrams and links; with *)
(* and without the diagram and API-description files, the tools and the    *)
(* contract entries.                                                       *)
(***************************************************************************)
PathAdr == <<<<"docs">>, <<"adr">>, <<"ADR", "-", "0", "0", "0", "1", "-", "a", ".", "md">>>>
PathAdrPlain == <<<<"docs">>, <<"adr">>, <<"a", ".", "md">>>>
PathAsset == <<<<"docs">>, <<"assets">>, <<"d", ".", "mmd">>>>
PathJson == <<<<"docs">>, <<"reference">>, <<"openapi">>, <<"api", ".", "json">>>>
PathYaml == <<<<"docs">>, <<"reference">>, <<"openapi">>, <<"api", ".", "yaml">>>>

\* a metadata block every check accepts, for a document of the category
FmValid(category) == <<
    FRONTMATTER_DELIM,
    <<"title", ":", " ", "x">>,
    <<"category", ":", " ", category>>,
    <<"owner", ":", " ", "team">>,
    <<"status", ":", " ", "draft">>,
    <<"last_reviewed", ":", " ">> \o isoformat(Date(2024, 3, 1)),
    <<"audience", ":", " ", "[", "a", ",", " ", "b", "]">>,
    <<"invariants", ":">>,
    <<"-", " ", "x">>,
    FRONTMATTER_DELIM >>

FenceLine(lang) == <<Backtick, Backtick, Backtick>> \o lang

DocTexts == {
    FmValid("tutorial") \o <<<<"#", " ", "a">>>>,
    <<<<"#", " ", "a">>>>,
    <<<<"-", "-", "-", "x">>, <<"k", ":", " ", "v">>, FRONTMATTER_DELIM>>,
    <<FRONTMATTER_DELIM, <<"k", ":", " ", "v">>>>,
    <<FRONTMATTER_DELIM, <<"k", ":", " ", "v">>, <<"-", " ", "x">>, FRONTMATTER_DELIM,
      <<"#", " ", "a">>>>,
    <<FRONTMATTER_DELIM, <<"k", ":", " ", "v">>, <<"!">>, FRONTMATTER_DELIM>>,
    FmValid("tutorial")
        \o <<FenceLine(<<"mermaid">>), <<"graph">>, FenceLine(<<>>), LinkLine(<<"missing">>)>>,
    FmOk \o <<FenceLine(<<"mermaid">>), <<" ">>, FenceLine(<<>>), FenceLine(<<>>)>>
}
SopTexts == {
    FmValid("tutorial") \o <<<<"#", " ", "Goal">>>>,
    FmOk \o <<<<"#", " ", "Steps">>>>
}
AdrFiles == {
    <<>>,
    PathAdr :> File(FmValid("reference")),
    (PathAdr :> File(FmValid("reference"))) @@ (PathAdrPlain :> File(FmOk)),
    (PathAdr :> File(FmValid("reference"))) @@ (PathAdrPlain :> File(<<<<"#", " ", "a">>>>))
}
JsonValue(valid, dict, keys) == [valid |-> valid, dict |-> dict, keys |-> keys]
ExtraFiles == {
    <<>>,
    (PathAsset :> File(<<<<"graph">>>>))
        @@ (PathJson :> JsonFile(<<<<"{", "}">>>>, JsonValue(TRUE, TRUE, {"openapi"})))
        @@ (PathYaml :> File(<<<<"openapi", ":", " ", "3">>>>)),
    (PathAsset :> File(<<<<" ">>>>))
        @@ (PathJson :> JsonFile(<<<<"{">>>>, JsonValue(FALSE, FALSE, {})))
        @@ (PathYaml :> File(<<<<"x">>>>)),
    PathJson :> JsonFile(<<<<"{", "}">>>>, JsonValue(TRUE, TRUE, {}))
}

LenientContracts == [
    required_docs_directories |-> <<<<"adr">>>>,
    required_frontmatter |-> <<<<"title">>, <<"owner">>>>,
    allowed_categories |-> {<<"tutorial">>, <<"reference">>},
    allowed_statuses |-> {<<"draft">>},
    allowed_owners |-> {<<"team">>},
    diataxis_category_by_folder |->
        (<<"sop">> :> <<"tutorial">>) @@ (<<"adr">> :> <<"reference">>),
    root_docs_allowed_categories |-> {<<"tutorial">>},
    sop_required_headings |-> <<<<"Goal">>>> ]
StrictContracts == [
    required_docs_directories |-> <<<<"adr">>, <<"missing">>>>,
    required_frontmatter |-> <<<<"title">>, <<"owner">>>>,
    allowed_categories |-> {<<"tutorial">>, <<"reference">>},
    allowed_statuses |-> {<<"draft">>},
    allowed_owners |-> {<<"team">>},
    diataxis_category_by_folder |->
        (<<"sop">> :> <<"tutorial">>) @@ (<<"adr">> :> <<"reference">>),
    root_docs_allowed_categories |-> {<<"reference">>},
    stale_review_days |-> 0,
    sop_required_headings |-> <<<<"Goal">>, <<"Steps">>>> ]
ContractSets == {NoContracts, LenientContracts, StrictContracts}

Tool(installed, rejects) ==
    [installed |-> installed, rejects |-> rejects, output |-> <<<<"a">>, <<"x", " ">>>>]
Env(mmdc, swagger_cli) ==
    [DOCS_TODAY |-> <<>>, today |-> Date(2024, 3, 2), mmdc |-> mmdc,
     swagger_cli |-> swagger_cli]
AllArgs(require_renderer, require_openapi_validator) ==
    [command |-> "all", require_renderer |-> require_renderer,
     require_openapi_validator |-> require_openapi_validator]
\* the tools on PATH and the flags of the command line
Setups == {
    <<Env(Tool(FALSE, {}), Tool(FALSE, {})), AllArgs(FALSE, FALSE)>>,
    <<Env(Tool(FALSE, {}), Tool(FALSE, {})), AllArgs(TRUE, TRUE)>>,
    <<Env(Tool(TRUE, {}), Tool(TRUE, {})), AllArgs(FALSE, FALSE)>>,
    <<Env(Tool(TRUE, {<<<<"graph">>>>}), Tool(TRUE, {PathJson})), AllArgs(TRUE, TRUE)>>,
    <<Env(Tool(TRUE, {}), Tool(FALSE, {})), AllArgs(TRUE, FALSE)>>
}

Init ==
    /\ IdleParse /\ IdleExtract /\ InitRun
    /\ \E a \in DocTexts, b \in SopTexts, adr \in AdrFiles, extra \in ExtraFiles :
         files = (PathA :> File(a)) @@ (PathSop :> File(b)) @@ adr @@ extra
    /\ dirs = {}
    /\ contracts \in ContractSets
    /\ \E setup \in Setups : env = setup[1] /\ args = setup[2]

Next ==
    \/ CollectDocs
    \/ RunStructure
    \/ RunFrontmatter
    \/ RunSop
    \/ RunLinks
    \/ RunMermaid
    \/ RunOpenapi
    \/ RunReport

Spec == Init /\ [][Next]_vars

\* the documents of the tree, and those whose metadata does not parse
Documents == {path \in DOMAIN files : IsDocPath(path)}
Unparsed(path) == split_frontmatter(files[path].text).errors # <<>>
RecordsOf(path) == {n \in 1..Len(records) : records[n].path = path}
ParseDiagnostics(path) ==
    {i \in 1..Len(parse_problems) : parse_problems[i].path = as_posix(path)}

\* C4: a document whose metadata cannot be parsed still has exactly one
\* DocRecord; the mapping of that record is empty, and every error is a
\* frontmatter diagnostic tagged with the path of the document.
C4_UnparsedHasEmptyMapping ==
    pc # "collect" =>
        \A path \in Documents :
            Unparsed(path) =>
                /\ Cardinality(RecordsOf(path)) = 1
                /\ \A n \in RecordsOf(path) : records[n].frontmatter = <<>>
                /\ Cardinality(ParseDiagnostics(path))
                      = Len(split_frontmatter(files[path].text).errors)
                /\ \A i \in ParseDiagnostics(path) : parse_problems[i].check = "frontmatter"

\* the Problems of the six checks, each on the collected records
CheckProblems ==
    <<validate_structure(contracts),
      validate_frontmatter(records, contracts, env),
      validate_sop_headings(records, contracts),
      validate_links(records),
      validate_mermaid(records, args.require_renderer, env).problems,
      validate_openapi(args.require_openapi_validator, env).problems>>

\* the statement of run_all that follows each position of main()
FollowingStep(step) ==
    CASE step = "collect" -> "dispatch"
      [] step = "dispatch" -> "frontmatter"
      [] step = "frontmatter" -> "sop"
      [] step = "sop" -> "links"
      [] step = "links" -> "mermaid"
      [] step = "mermaid" -> "openapi"
      [] step = "openapi" -> "report"
      [] step = "report" -> "done"

AllDone ==
    /\ problems = parse_problems \o CheckProblems[1] \o CheckProblems[2]
                  \o CheckProblems[3] \o CheckProblems[4] \o CheckProblems[5]
                  \o CheckProblems[6]
    /\ exit_code \in {0, 1}
    /\ exit_code = 1 <=>
          \/ parse_problems # <<>>
          \/ \E k \in 1..6 : CheckProblems[k] # <<>>

\* C10: in the `all` command every step leads to the next check whatever
\* Problems were gathered so far, no exit code is set before the end, the
\* Problems at the end are those of collection followed by those of each of
\* the six checks, and the exit code is 1 exactly when collection or one of
\* the checks produced a diagnostic, and 0 otherwise.
C10_EveryCheckRunsExitCodeIffAny ==
    /\ [][pc' = FollowingStep(pc)]_vars
    /\ [](pc # "done" => exit_code = -1)
    /\ [](pc = "done" => AllDone)

C10_Witness ==
    /\ pc = "done"
    /\ exit_code = 1
    /\ parse_problems # <<>>
    /\ \A k \in {1, 3, 5, 6} : CheckProblems[k] # <<>>
    /\ problems[Len(problems)].check = "openapi"

(***************************************************************************)
(* The `audit-report` command: on trees without a document and on trees    *)
(* whose documents carry a last_reviewed value; with output paths that can *)
(* be written and output paths that cannot.                                *)
(***************************************************************************)
PathOut == <<<<"out">>, <<"audit", ".", "json">>>>
\* a new file in a new directory, the path of a document, the docs directory
\* itself, and a path below a document
Outputs == {PathOut, PathA, docs_root, Append(PathA, <<"r", ".", "json">>)}
AuditArgs(output) == [command |-> "audit-report", output |-> output]

AuditReviewValues == {
    isoformat(Date(2024, 1, 31)),
    isoformat(Date(2024, 1, 30)),
    isoformat(Date(2024, 3, 2)),
    <<"x">>,
    <<"[", "x", "]">>
}
AuditDocs ==
    {<<>>,
     PathA :> File(FmValid("tutorial") \o <<<<"#", " ", "a">>>>),
     PathA :> File(<<FRONTMATTER_DELIM, <<"k", ":", " ", "v">>>>)}
    \cup {PathA :> ReviewedDoc(v) : v \in AuditReviewValues}
AuditGuides ==
    {<<>>,
     PathGuide :> ReviewedDoc(isoformat(Date(2024, 1, 30))),
     PathGuide :> File(<<<<"#", " ", "a">>>>)}
AuditEnvs == {
    Env(Tool(FALSE, {}), Tool(FALSE, {})),
    Env(Tool(TRUE, {<<<<"graph">>>>}), Tool(TRUE, {PathJson})),
    [DOCS_TODAY |-> isoformat(Date(2024, 3, 1)), today |-> Date(2024, 8, 29),
     mmdc |-> Tool(FALSE, {}), swagger_cli |-> Tool(FALSE, {}),
     DOCS_STALE_REVIEW_DAYS |-> <<"3", "0">>]
}

InitAudit ==
    /\ IdleParse /\ IdleExtract /\ InitRun
    /\ \E a \in AuditDocs, g \in AuditGuides, extra \in ExtraFiles :
         files = a @@ g @@ extra
    /\ dirs \in {{}, {<<<<"docs">>, <<"adr">>>>}}
    /\ contracts \in ContractSets
    /\ env \in AuditEnvs
    /\ \E output \in Outputs : args = AuditArgs(output)

NextAudit ==
    \/ CollectDocs
    \/ AuditChecks
    \/ AuditReport
    \/ AuditWrite
    \/ AuditAbort
    \/ AuditExit

SpecAudit == InitAudit /\ [][NextAudit]_vars

\* the file at the output path is a JSON summary; its value
ReportWritten ==
    /\ args.output \in DOMAIN files
    /\ "value" \in DOMAIN files[args.output].json
WrittenReport == files[args.output].json.value

\* the Problems the run holds for each of the six checks
RecordedChecks ==
    <<audit.structure_problems, audit.frontmatter_problems, audit.sop_problems,
      audit.link_problems, mermaid_problems, openapi_problems>>
\* the Problems of the six checks on the collected records, no tool required
AuditCheckProblems ==
    <<validate_structure(contracts),
      validate_frontmatter(records, contracts, env),
      validate_sop_headings(records, contracts),
      validate_links(records),
      validate_mermaid(records, FALSE, env).problems,
      validate_openapi(FALSE, env).problems>>
AnyDiagnostic ==
    \/ parse_problems # <<>>
    \/ \E k \in 1..6 : RecordedChecks[k] # <<>>

\* C11: in an audit-report run no exit code is returned before the summary
\* is in the file at the output path, whether or not diagnostics exist; the
\* Problems the run holds are those of the six checks on the collected
\* records and stay as they are until the end; the exit code is 1 exactly
\* when collection or one of the checks produced a diagnostic, and 0
\* otherwise.  A run the write aborts returns no exit code.
C11_ReportWrittenThenExitCodeIffAny ==
    /\ [](exit_code # -1 => pc = "done")
    /\ [](pc \in {"exit", "done"} => ReportWritten /\ WrittenReport = audit.report)
    /\ [](pc = "metrics" => RecordedChecks = AuditCheckProblems)
    /\ [][(pc \in {"metrics", "write", "exit"}) =>
             (RecordedChecks' = RecordedChecks /\ UNCHANGED parse_problems)]_vars
    /\ [](pc = "done" => exit_code = (IF AnyDiagnostic THEN 1 ELSE 0))

C11_Witness ==
    /\ pc = "done"
    /\ exit_code = 1
    /\ ReportWritten
    /\ parse_problems # <<>>
    /\ \A k \in 1..6 : RecordedChecks[k] = <<>>
    /\ WrittenReport.validation_issue_counts.parse = 1

\* C12 as stated: an audit-report run on a corpus with zero documents writes
\* a report with document_count 0, fresh_review_percent 0.0 and no
\* stale_documents, and exits with code 0.
C12_EmptyCorpusExitsZero ==
    pc = "done" /\ records = <<>> =>
        /\ ReportWritten
        /\ WrittenReport.document_count = 0
        /\ WrittenReport.fresh_review_percent = 0
        /\ WrittenReport.stale_documents = <<>>
        /\ exit_code = 0

\* C12 as amended: an audit-report run on a corpus with zero documents writes
\* a report with document_count 0, fresh_review_percent 0.0 and no
\* stale_documents; it exits with code 1 when the structure, diagram or API
\* description check produced a diagnostic, and with code 0 otherwise.
C12_EmptyCorpusReport ==
    pc = "done" /\ records = <<>> =>
        /\ ReportWritten
        /\ WrittenReport.document_count = 0
        /\ WrittenReport.fresh_review_percent = 0
        /\ WrittenReport.stale_documents = <<>>
        /\ exit_code = (IF \E k \in {1, 5, 6} : RecordedChecks[k] # <<>> THEN 1 ELSE 0)

C12_Witness ==
    /\ pc = "done"
    /\ records = <<>>
    /\ WrittenReport.document_count = 0
    /\ WrittenReport.fresh_review_percent = 0
    /\ exit_code = 1
    /\ RecordedChecks[1] # <<>>
    /\ RecordedChecks[5] = <<>> /\ RecordedChecks[6] = <<>>

(***************************************************************************)
(* The renderer and the ADR file names in the `all` command.               *)
(***************************************************************************)
\* the Problems validate_mermaid returned that say the renderer is missing,
\* and those of a rendering that failed
AbsenceDiagnostics ==
    {i \in 1..Len(mermaid_problems) :
        /\ mermaid_problems[i].check = "mermaid"
        /\ mermaid_problems[i].path = <<"mmdc">>
        /\ mermaid_problems[i].message
              = "mermaid-cli (mmdc) is required but not installed"}
RenderDiagnostics ==
    {i \in 1..Len(mermaid_problems) :
        mermaid_problems[i].message = "render validation failed"}

\* C13 as stated: when mmdc is not installed, validate_mermaid returns no
\* renderer diagnostic if require_renderer is not set, and it reports the
\* absence of the renderer if require_renderer is set, for every corpus.
C13_AbsenceReportedIffRequired ==
    pc \in {"openapi", "report", "done"} /\ ~env.mmdc.installed =>
        /\ RenderDiagnostics = {}
        /\ IF args.require_renderer THEN AbsenceDiagnostics # {}
           ELSE AbsenceDiagnostics = {}

\* the documents below docs/adr, and the adr Problems of the n-th record
InAdrFolder(path) == Len(path) > 2 /\ path[1] = <<"docs">> /\ path[2] = <<"adr">>
AdrDiagnostics(n) ==
    {i \in 1..Len(problems) :
        problems[i].check = "adr" /\ problems[i].path = records[n].rel_path}

\* C14 as stated: after the metadata check a document has an adr diagnostic
\* exactly when it lies below docs/adr and its file name does not match
\* ADR-dddd...md, whatever its metadata is, an empty mapping included.
C14_AdrDiagnosticIffMisnamed ==
    pc \in {"sop", "links", "mermaid", "openapi", "report", "done"} =>
        \A n \in 1..Len(records) :
            AdrDiagnostics(n) # {}
                <=> InAdrFolder(records[n].path) /\ ~AdrNameMatch(Name(records[n].path))

(***************************************************************************)
(* The stale documents of the audit report and of the metadata check.      *)
(***************************************************************************)
\* the n-th record is listed in stale_documents of the written report
StaleListed(n) ==
    \E i \in 1..Len(WrittenReport.stale_documents) :
        WrittenReport.stale_documents[i] = records[n].rel_path
\* validate_frontmatter returned a stale diagnostic for the n-th record
StaleFlagged(n) ==
    \E i \in 1..Len(audit.frontmatter_problems) :
        /\ audit.frontmatter_problems[i].check = "frontmatter"
        /\ audit.frontmatter_problems[i].path = records[n].rel_path
        /\ audit.frontmatter_problems[i].message = "last_reviewed is stale"
Reviewed == {n \in 1..Len(records) : HasValidReview(n)}

\* C15: at the end of an audit-report run a document is listed in
\* stale_documents of the report exactly when the metadata check returned a
\* stale last_reviewed diagnostic for it; stale_documents lists documents of
\* the corpus, none twice; and the documents counted as fresh and those
\* listed as stale are together the documents whose last_reviewed is a
\* string that is a calendar date, the listed ones older than the threshold
\* and the others not.
C15_StaleListedIffFlagged ==
    pc = "done" =>
        /\ \A n \in 1..Len(records) : StaleListed(n) <=> StaleFlagged(n)
        /\ \A i \in 1..Len(WrittenReport.stale_documents) :
              /\ \E n \in Reviewed : records[n].rel_path = WrittenReport.stale_documents[i]
              /\ \A j \in 1..Len(WrittenReport.stale_documents) :
                    WrittenReport.stale_documents[j] = WrittenReport.stale_documents[i]
                        => j = i
        /\ audit.fresh + Len(WrittenReport.stale_documents) = Cardinality(Reviewed)
        /\ audit.total_reviewed = Cardinality(Reviewed)
        /\ \A n \in Reviewed :
              StaleListed(n) <=> AgeInDays(ReviewDay(n), Today) > Threshold

C15_Witness ==
    /\ pc = "done"
    /\ \E n, m \in Reviewed :
         /\ StaleListed(n) /\ StaleFlagged(n)
         /\ AgeInDays(ReviewDay(n), Today) = Threshold + 1
         /\ ~StaleListed(m) /\ ~StaleFlagged(m)
         /\ AgeInDays(ReviewDay(m), Today) = Threshold
    /\ audit.fresh = 1
    /\ WrittenReport.fresh_review_percent = 5000

====
